---- MODULE Spec2Model ----
(***************************************************************************)
(* ImageMerge: the annotation canvas (ClickableImageLabel), the comparison *)
(* view (ComparisonSlider), the orchestrator (ImageAlignmentApp.run_warp   *)
(* and the handlers that call it) of src/main.py, and the two warpers of   *)
(* src/warping.py.                                                         *)
(*                                                                         *)
(* A point is a pair <<x, y>> of integers (screen_to_image truncates to    *)
(* int).  An image is a record [w, h, tag]; pixel contents are not         *)
(* modelled.  Python's None is written NoImage for an image, NoPixmap for  *)
(* a pixmap, NoPoint for a point and None (a string) elsewhere, so that    *)
(* values that are compared have one shape.  Python list indices are kept  *)
(* 0-based in the state (dragging_idx = -1 means "no drag"); the sequences *)
(* themselves are 1-based.                                                 *)
(***************************************************************************)
EXTENDS Integers, Sequences, FiniteSets, TLC

None == "None"

NoImage == [w |-> 0, h |-> 0, tag |-> "None"]

NoPixmap == [w |-> 0, h |-> 0]

NoPoint == << >>

\* ------------------------------------------------------------------ bounds

MaxPoints == 1
MaxLines == 1
MaxFaces == 1
MaxN == 4
MaxCount == 2
FarX == 41
MaxOut == 8

\* ---------------------------------------------------------- small helpers

Min(a, b) == IF a <= b THEN a ELSE b

Max(a, b) == IF a >= b THEN a ELSE b

\* Python's lst[:k]
Take(s, k) == SubSeq(s, 1, Min(k, Len(s)))

\* Python's lst.pop(idx) (0-based idx, in range)
PopAt(s, idx) == SubSeq(s, 1, idx) \o SubSeq(s, idx + 2, Len(s))

\* Python's lst.pop()
PopLast(s) == SubSeq(s, 1, Len(s) - 1)

\* ------------------------------------------------------- point geometry

\* Twice the signed area of the triangle p, q, r: zero iff they are collinear.
Cross(p, q, r) == (q[1] - p[1]) * (r[2] - p[2]) - (q[2] - p[2]) * (r[1] - p[1])

\* Every point of the sequence lies on one line (fewer than three distinct
\* directions): the matrix P = [1, x, y] of the TPS system has rank < 3.
AllCollinear(pts) ==
    \A i, j, k \in 1..Len(pts) : Cross(pts[i], pts[j], pts[k]) = 0

\* Four indices no three of which are collinear: a sample from which a
\* homography is determined.
GoodSample(pts, S) ==
    \A i, j, k \in S : (i < j /\ j < k) => Cross(pts[i], pts[j], pts[k]) # 0

\* No four correspondences determine a homography: in the source or in the
\* destination set every 4-sample has three collinear points.
HomographyDegenerate(src, dst) ==
    ~ \E S \in SUBSET (1..Len(src)) :
          /\ Cardinality(S) = 4
          /\ GoodSample(src, S)
          /\ GoodSample(dst, S)

\* --------------------------------------------------- library behaviour
\* What the numpy / OpenCV calls of src/warping.py do with their arguments.
\* Where the outcome depends on the library build or on floating-point
\* rounding, every outcome the library can produce is in the set.

\* cv2.remap and cv2.warpPerspective assert that the source and the
\* destination are narrower and shorter than SHRT_MAX.
SHRT_MAX == 32767

Oversized(img, size) ==
    \/ img.w >= SHRT_MAX
    \/ img.h >= SHRT_MAX
    \/ size[1] >= SHRT_MAX
    \/ size[2] >= SHRT_MAX

\* cv2.findHomography(src, dst, RANSAC, 5.0): "H" is a 3x3 matrix.
\*  - different lengths: the library's assertion fails (cv2.error);
\*  - fewer than 4 pairs: cv2.error in current builds, None in older ones;
\*  - no non-degenerate sample: None from the RANSAC path, a matrix from the
\*    direct 4-point solve, which does not test for collinearity.
cv2_findHomography(src, dst) ==
    IF Len(src) # Len(dst) THEN {"cv2.error"}
    ELSE IF Len(src) < 4 THEN {None, "cv2.error"}
    ELSE IF HomographyDegenerate(src, dst) THEN {None, "H"}
    ELSE {"H"}

\* V[:N, :] = src_pts with V of shape (N+3, 2): numpy broadcasts a source of
\* one row, accepts N rows, and raises ValueError otherwise.
BroadcastOk(N, srcLen) == srcLen = N \/ srcLen = 1

\* A column of P (x or y) is entirely zero, or N = 0: L has a zero column
\* and the LU factorisation meets a pivot that is exactly zero.
ZeroColumn(dst) ==
    \/ \A i \in 1..Len(dst) : dst[i][1] = 0
    \/ \A i \in 1..Len(dst) : dst[i][2] = 0

\* np.linalg.solve(L, V): with P of full rank the regularised system is
\* non-singular and is solved.  With P rank-deficient L is singular; LAPACK
\* reports it (LinAlgError) when a pivot is exactly zero and may otherwise
\* return weights computed from a rounding-sized pivot.
np_linalg_solve(dst) ==
    IF ZeroColumn(dst) THEN {"LinAlgError"}
    ELSE IF AllCollinear(dst) THEN {"LinAlgError", "weights"}
    ELSE {"weights"}

\* ------------------------------------------------------------- warpers
\* The result of one warp() call: what it returns (ret: "image", None or
\* "raise" with the exception in exc), the image returned, the library calls
\* it made, the outcome of the linear solve and the number of dense-map rows
\* it evaluated.

WarpedImage(size) == [w |-> size[1], h |-> size[2], tag |-> "warped"]

Returned(img, calls, solve, rows) ==
    [img |-> img, calls |-> calls, solve |-> solve, rows |-> rows,
     ret |-> "image", exc |-> None]

ReturnedNone(calls, solve) ==
    [img |-> NoImage, calls |-> calls, solve |-> solve, rows |-> 0,
     ret |-> None, exc |-> None]

Raised(exc, calls, solve, rows) ==
    [img |-> NoImage, calls |-> calls, solve |-> solve, rows |-> rows,
     ret |-> "raise", exc |-> exc]

\* cv2.warpPerspective(img_src, H, output_size)
cv2_warpPerspective(img_src, output_size) ==
    IF Oversized(img_src, output_size)
    THEN Raised("cv2.error", {"findHomography", "warpPerspective"}, "none", 0)
    ELSE Returned(WarpedImage(output_size),
                  {"findHomography", "warpPerspective"}, "none", 0)

\* HomographyWarper.warp, after findHomography returned h
HomographyAfterEstimate(h, img_src, output_size) ==
    IF h = "cv2.error" THEN Raised("cv2.error", {"findHomography"}, "none", 0)
    ELSE IF h = None THEN ReturnedNone({"findHomography"}, "none")
    ELSE cv2_warpPerspective(img_src, output_size)

HomographyWarper_warp(img_src, src_pts, dst_pts, output_size) ==
    { HomographyAfterEstimate(h, img_src, output_size) :
        h \in cv2_findHomography(src_pts, dst_pts) }

\* cv2.remap(img_src, map_x, map_y, INTER_CUBIC) with maps of target_h rows
\* and target_w columns, after the row loop filled them
cv2_remap(img_src, output_size) ==
    IF Oversized(img_src, output_size)
    THEN Raised("cv2.error", {"solve", "remap"}, "weights", output_size[2])
    ELSE Returned(WarpedImage(output_size), {"solve", "remap"}, "weights",
                  output_size[2])

\* TPSWarper.warp with an except branch that does not return: the dense map
\* is evaluated and remapped whatever the solve did
TPSAfterSolveUnchecked(s, img_src, output_size) ==
    IF Oversized(img_src, output_size)
    THEN Raised("cv2.error", {"solve", "remap"}, s, output_size[2])
    ELSE Returned(WarpedImage(output_size), {"solve", "remap"}, s,
                  output_size[2])

\* TPSWarper.warp from the try block on: s is what np.linalg.solve did
TPSAfterSolve(s, img_src, output_size) ==
    IF s = "LinAlgError" THEN ReturnedNone({"solve"}, "LinAlgError")
    ELSE cv2_remap(img_src, output_size)

TPSWarper_warp(img_src, src_pts, dst_pts, output_size) ==
    IF ~ BroadcastOk(Len(dst_pts), Len(src_pts))
    THEN {Raised("ValueError", {}, "none", 0)}
    ELSE { TPSAfterSolve(s, img_src, output_size) :
             s \in np_linalg_solve(dst_pts) }

\* -------------------------------------------------- landmark aggregation
\* run_warp's first part: both panes' annotations flattened to pts1, pts2.

RECURSIVE LineEndpoints(_, _)
\* the start and end of each of the first k lines, in order
LineEndpoints(lines, k) ==
    IF k = 0 THEN << >>
    ELSE LineEndpoints(lines, k - 1) \o << lines[k][1], lines[k][2] >>

RECURSIVE FaceCorners(_, _)
\* corners j = 0..3 of each of the first k faces, in order
FaceCorners(faces, k) ==
    IF k = 0 THEN << >>
    ELSE FaceCorners(faces, k - 1)
           \o << faces[k][1], faces[k][2], faces[k][3], faces[k][4] >>

\* pts1 (or pts2): list(pane.points), then the endpoints of n_lines lines,
\* then the corners of n_faces faces
CollectPts(pane, n_lines, n_faces) ==
    pane.points \o LineEndpoints(pane.lines, n_lines)
                \o FaceCorners(pane.faces, n_faces)

\* src_pts = pts2, dst_pts = pts1 without the slices [:n]
TruncatePairWhole(pts1, pts2) ==
    [src |-> pts2, dst |-> pts1, n |-> Min(Len(pts1), Len(pts2)),
     len1 |-> Len(pts1), len2 |-> Len(pts2)]

\* n = min(len(pts1), len(pts2)), src_pts = pts2[:n], dst_pts = pts1[:n]
TruncatePair(pts1, pts2) ==
    LET n == Min(Len(pts1), Len(pts2))
    IN  [src |-> Take(pts2, n), dst |-> Take(pts1, n), n |-> n,
         len1 |-> Len(pts1), len2 |-> Len(pts2)]

\* pts = self.pane.points, the pane's own list: what run_warp appends lands
\* in the pane
ListAlias(points, appended) == points \o appended

\* pts = list(self.pane.points), a new list: what run_warp appends to it
\* (appended) does not reach the pane's list
ListCopy(points, appended) == points

\* the pane's points, lines and faces once run_warp has collected pts
PaneAfterCollect(pane, n_lines, n_faces) ==
    << ListCopy(pane.points, LineEndpoints(pane.lines, n_lines)
                               \o FaceCorners(pane.faces, n_faces)),
       pane.lines, pane.faces >>

\* src, dst and n of one invocation, and in lists what it leaves in the
\* panes' lists
Aggregate(pane1, pane2) ==
    LET n_lines == Min(Len(pane1.lines), Len(pane2.lines))
        n_faces == Min(Len(pane1.faces), Len(pane2.faces))
        t == TruncatePair(CollectPts(pane1, n_lines, n_faces),
                          CollectPts(pane2, n_lines, n_faces))
    IN  [src |-> t.src, dst |-> t.dst, n |-> t.n, len1 |-> t.len1,
         len2 |-> t.len2,
         lists |-> << PaneAfterCollect(pane1, n_lines, n_faces),
                      PaneAfterCollect(pane2, n_lines, n_faces) >>]

\* --------------------------------------------------------------- run_warp

\* warp_combo's items and the test `"TPS" in method`
ComboText(idx) ==
    IF idx = 0 THEN "Perspective (Rigid)"
    ELSE IF idx = 1 THEN "TPS (Elastic)"
    ELSE ""

UsesTPS(method) == method = "TPS (Elastic)"

\* the guard without its test of the two images
CanWarpWithoutImages(n, img1, img2) == n >= 4

\* the guard of run_warp's estimation branch
CanWarp(n, img1, img2) == n >= 4 /\ img1 # NoImage /\ img2 # NoImage

\* warper.warp called with the shape of cv_img2 as the output size
CallWarperSourceSize(method, img1, img2, agg) ==
    IF UsesTPS(method)
    THEN TPSWarper_warp(img2, agg.src, agg.dst, << img2.w, img2.h >>)
    ELSE HomographyWarper_warp(img2, agg.src, agg.dst, << img2.w, img2.h >>)

\* warper.warp(self.cv_img2, src_pts, dst_pts, (w, h)) with h, w the shape of
\* cv_img1
CallWarper(method, img1, img2, agg) ==
    IF UsesTPS(method)
    THEN TPSWarper_warp(img2, agg.src, agg.dst, << img1.w, img1.h >>)
    ELSE HomographyWarper_warp(img2, agg.src, agg.dst, << img1.w, img1.h >>)

\* run_warp with a call that changes the combo box's selection
RunWarpCallsSwitching ==
    {"warp_combo.currentText", "warp_combo.setCurrentIndex",
     "statusBar.showMessage", "warper.warp", "comparison_view.set_images",
     "btn_save.setEnabled"}

\* The calls run_warp makes before it returns, over all its branches.
RunWarpCalls ==
    {"warp_combo.currentText", "statusBar.showMessage", "warper.warp",
     "comparison_view.set_images", "btn_save.setEnabled"}

\* the signal a call emits before it returns ("" when it emits none of the
\* signals init_ui connects)
SignalOf(c) ==
    IF c = "warp_combo.setCurrentIndex" THEN "currentTextChanged"
    ELSE IF c = "pointsChanged.emit" THEN "pointsChanged"
    ELSE ""

\* the functions a signal runs, through the slot init_ui connected to it
SlotRuns(sig) ==
    IF sig = "currentTextChanged" THEN {"run_warp"}
    ELSE IF sig = "pointsChanged" THEN {"run_warp", "sync_points"}
    ELSE {}

\* how many run_warp frames are on the stack at most while one invocation
\* runs: 1, or 2 when one of its calls runs run_warp again through a signal
RunWarpDepth ==
    IF \E c \in RunWarpCalls : "run_warp" \in SlotRuns(SignalOf(c))
    THEN 2 ELSE 1

\* The widgets and fields run_warp writes, as a record ui =
\* [warped_img2, btn_save, view_img1, view_img2, status], and what the
\* invocation did: info = [called, ret, raised, n, src, dst, method, depth,
\* inputs].

\* run_warp after warper.warp returned an image
WarpSucceeded(ui, img1, o) ==
    [warped_img2 |-> o.img, btn_save |-> TRUE,
     view_img1 |-> img1, view_img2 |-> o.img, status |-> "aligned"]

\* run_warp after warper.warp returned None
WarpFailed(ui) ==
    [ui EXCEPT !.warped_img2 = NoImage, !.btn_save = FALSE,
               !.status = "failed"]

\* run_warp left by an exception of warper.warp: the assignment to
\* warped_img2 and everything after it is not executed
WarpRaised(ui) == [ui EXCEPT !.status = "warping"]

\* run_warp's else branch
WarpRefused(ui, img1, img2) ==
    [ui EXCEPT !.btn_save = FALSE, !.view_img1 = img1,
               !.view_img2 = NoImage,
               !.status = IF img1 # NoImage /\ img2 # NoImage
                          THEN "select" ELSE ui.status]

\* run_warp keeping the result of an earlier invocation: once an image was
\* produced it is published again, whatever warper.warp returns
AfterWarpRetained(ui, img1, agg, method, o) ==
    LET kept == ui.warped_img2 # NoImage
    IN  [ui |-> IF kept
                THEN WarpSucceeded(ui, img1, [o EXCEPT !.img = ui.warped_img2])
                ELSE IF o.ret = "image" THEN WarpSucceeded(ui, img1, o)
                ELSE IF o.ret = None THEN WarpFailed(ui)
                ELSE WarpRaised(ui),
         info |-> [src |-> agg.src, dst |-> agg.dst,
                   ret |-> IF kept THEN "image" ELSE o.ret,
                   n |-> agg.n, method |-> method, called |-> TRUE,
                   raised |-> (~ kept) /\ o.ret = "raise",
                   depth |-> RunWarpDepth,
                   inputs |-> agg.lists]]

AfterWarp(ui, img1, agg, method, o) ==
    [ui |-> IF o.ret = "image" THEN WarpSucceeded(ui, img1, o)
            ELSE IF o.ret = None THEN WarpFailed(ui)
            ELSE WarpRaised(ui),
     info |-> [src |-> agg.src, dst |-> agg.dst, ret |-> o.ret,
               n |-> agg.n, method |-> method, called |-> TRUE,
               raised |-> o.ret = "raise", depth |-> RunWarpDepth,
                   inputs |-> agg.lists]]

\* self.pane.faces[i][j] for j in range(4) raises IndexError on a face of
\* fewer than four corners among the faces run_warp pairs
ShortFace(pane1, pane2) ==
    \E k \in 1..Min(Len(pane1.faces), Len(pane2.faces)) :
        Len(pane1.faces[k]) < 4 \/ Len(pane2.faces[k]) < 4

\* Every way one run_warp invocation can end, from the panes, the images, the
\* selected method and the widgets as they are when it starts.
run_warp(pane1, pane2, img1, img2, combo, ui) ==
    IF ShortFace(pane1, pane2)
    THEN { [ui |-> ui,
            info |-> [src |-> << >>, dst |-> << >>, ret |-> "raise",
                      n |-> 0, method |-> "", called |-> FALSE,
                      raised |-> TRUE, depth |-> RunWarpDepth,
                   inputs |-> << PaneAfterCollect(pane1, 0, 0),
                                     PaneAfterCollect(pane2, 0, 0) >>]] }
    ELSE
    LET agg == Aggregate(pane1, pane2)
        method == ComboText(combo)
    IN  IF CanWarp(agg.n, img1, img2)
        THEN { AfterWarp(ui, img1, agg, method, o) :
                 o \in CallWarper(method, img1, img2, agg) }
        ELSE { [ui |-> WarpRefused(ui, img1, img2),
                info |-> [src |-> << >>, dst |-> << >>,
                          ret |-> "refused", n |-> agg.n,
                          method |-> "", called |-> FALSE,
                          raised |-> FALSE, depth |-> RunWarpDepth,
                   inputs |-> agg.lists]] }

\* ------------------------------------------------- ClickableImageLabel
\* A pane is a record of the fields __init__ sets.  A mouse position is
\* given in image coordinates before clamping (inv.map(pos)); zoom and pan
\* only change that mapping and are not part of the record.

NewPane ==
    [lines |-> << >>, faces |-> << >>, points |-> << >>, pixmap |-> NoPixmap,
     input_mode |-> "POINT",
     dragging_idx |-> -1, dragging_line_idx |-> -1, dragging_line_end |-> 0,
     current_line_start |-> NoPoint, temp_line_end |-> NoPoint,
     dragging_face_idx |-> -1, dragging_face_corner |-> -1,
     current_face_start |-> NoPoint, temp_face_end |-> NoPoint,
     panning |-> FALSE]

\* set_image: the pixmap takes the image's size and the annotations are
\* dropped; the drag fields are left as they are
set_image(p, cv_img) ==
    [p EXCEPT !.pixmap = [w |-> cv_img.w, h |-> cv_img.h],
              !.points = << >>, !.lines = << >>, !.faces = << >>]

\* screen_to_image: clamped to the pixmap
screen_to_image(p, pos) ==
    IF p.pixmap = NoPixmap THEN NoPoint
    ELSE << Max(0, Min(p.pixmap.w - 1, pos[1])),
            Max(0, Min(p.pixmap.h - 1, pos[2])) >>

\* (image_to_screen(pt) - click).manhattanLength() < 15, at a zoom where
\* neighbouring image pixels are at least 15 screen pixels apart
Near(pt, pos) == pt = pos

\* the first point the click is near (0-based), or -1
HitPoint(points, pos) ==
    IF \E i \in 1..Len(points) : Near(points[i], pos)
    THEN (CHOOSE i \in 1..Len(points) :
            /\ Near(points[i], pos)
            /\ \A k \in 1..(i - 1) : ~ Near(points[k], pos)) - 1
    ELSE -1

\* the first line with an endpoint the click is near, start before end
HitLine(lines, pos) ==
    LET hit(i) == Near(lines[i][1], pos) \/ Near(lines[i][2], pos)
    IN  IF \E i \in 1..Len(lines) : hit(i)
        THEN LET i == CHOOSE i \in 1..Len(lines) :
                        hit(i) /\ \A k \in 1..(i - 1) : ~ hit(k)
             IN  [idx |-> i - 1,
                  end |-> IF Near(lines[i][1], pos) THEN 0 ELSE 1]
        ELSE [idx |-> -1, end |-> 0]

\* the first face with a corner the click is near, and its first such corner
HitFace(faces, pos) ==
    LET hit(i) == \E j \in 1..Len(faces[i]) : Near(faces[i][j], pos)
    IN  IF \E i \in 1..Len(faces) : hit(i)
        THEN LET i == CHOOSE i \in 1..Len(faces) :
                        hit(i) /\ \A k \in 1..(i - 1) : ~ hit(k)
                 j == CHOOSE j \in 1..Len(faces[i]) :
                        /\ Near(faces[i][j], pos)
                        /\ \A k \in 1..(j - 1) : ~ Near(faces[i][k], pos)
             IN  [idx |-> i - 1, corner |-> j - 1]
        ELSE [idx |-> -1, corner |-> -1]

\* A handler's effect on its pane, and whether it emitted pointsChanged.
Quiet(p) == [pane |-> p, emit |-> FALSE]

Emitting(p) == [pane |-> p, emit |-> TRUE]

\* mousePressEvent, left button, by input mode
PressLeftPoint(p, pos, img_pos) ==
    LET i == HitPoint(p.points, pos)
    IN  IF i # -1 THEN Quiet([p EXCEPT !.dragging_idx = i])
        ELSE Emitting([p EXCEPT !.points = Append(@, img_pos)])

PressLeftLine(p, pos, img_pos) ==
    LET h == HitLine(p.lines, pos)
    IN  IF h.idx # -1
        THEN Quiet([p EXCEPT !.dragging_line_idx = h.idx,
                             !.dragging_line_end = h.end])
        ELSE Quiet([p EXCEPT !.current_line_start = img_pos,
                             !.temp_line_end = img_pos])

PressLeftFace(p, pos, img_pos) ==
    LET h == HitFace(p.faces, pos)
    IN  IF h.idx # -1
        THEN Quiet([p EXCEPT !.dragging_face_idx = h.idx,
                             !.dragging_face_corner = h.corner])
        ELSE Quiet([p EXCEPT !.current_face_start = img_pos,
                             !.temp_face_end = img_pos])

\* a right button handler that pops without emitting pointsChanged
PressRightSilent(p) ==
    IF p.input_mode = "POINT" /\ p.points # << >>
    THEN Quiet([p EXCEPT !.points = PopLast(@)])
    ELSE IF p.input_mode = "LINE" /\ p.lines # << >>
    THEN Quiet([p EXCEPT !.lines = PopLast(@)])
    ELSE IF p.input_mode = "FACE" /\ p.faces # << >>
    THEN Quiet([p EXCEPT !.faces = PopLast(@)])
    ELSE Quiet(p)

\* a right button handler that undoes the last annotation of the first list
\* that has one, whatever the mode
PressRightOfAnyMode(p) ==
    IF p.points # << >>
    THEN Emitting([p EXCEPT !.points = PopLast(@)])
    ELSE IF p.lines # << >>
    THEN Emitting([p EXCEPT !.lines = PopLast(@)])
    ELSE IF p.faces # << >>
    THEN Emitting([p EXCEPT !.faces = PopLast(@)])
    ELSE Quiet(p)

\* mousePressEvent, right button: undo the last annotation of the mode
PressRight(p) ==
    IF p.input_mode = "POINT" /\ p.points # << >>
    THEN Emitting([p EXCEPT !.points = PopLast(@)])
    ELSE IF p.input_mode = "LINE" /\ p.lines # << >>
    THEN Emitting([p EXCEPT !.lines = PopLast(@)])
    ELSE IF p.input_mode = "FACE" /\ p.faces # << >>
    THEN Emitting([p EXCEPT !.faces = PopLast(@)])
    ELSE Quiet(p)

mousePressEvent(p, button, pos) ==
    IF p.pixmap = NoPixmap THEN Quiet(p)
    ELSE IF button = "Middle" THEN Quiet([p EXCEPT !.panning = TRUE])
    ELSE LET img_pos == screen_to_image(p, pos)
         IN  IF button = "Left"
             THEN IF p.input_mode = "POINT"
                  THEN PressLeftPoint(p, pos, img_pos)
                  ELSE IF p.input_mode = "LINE"
                  THEN PressLeftLine(p, pos, img_pos)
                  ELSE IF p.input_mode = "FACE"
                  THEN PressLeftFace(p, pos, img_pos)
                  ELSE Quiet(p)
             ELSE IF button = "Right" THEN PressRight(p)
             ELSE Quiet(p)

\* mouseMoveEvent's branches for a drag in progress
MovePoint(p, img_pos) ==
    IF p.dragging_idx >= Len(p.points)
    THEN Quiet([p EXCEPT !.dragging_idx = -1])
    ELSE IF img_pos = NoPoint THEN Quiet(p)
    ELSE Emitting([p EXCEPT !.points[p.dragging_idx + 1] = img_pos])

\* the line branch of mouseMoveEvent returning on a stale index without
\* resetting it
MoveLineEndKeepingIndex(p, img_pos) ==
    IF p.dragging_line_idx >= Len(p.lines) THEN Quiet(p)
    ELSE IF img_pos = NoPoint THEN Quiet(p)
    ELSE LET old_line == p.lines[p.dragging_line_idx + 1]
         IN  Emitting([p EXCEPT !.lines[p.dragging_line_idx + 1] =
                 IF p.dragging_line_end = 0
                 THEN << img_pos, old_line[2] >>
                 ELSE << old_line[1], img_pos >>])

MoveLineEnd(p, img_pos) ==
    IF p.dragging_line_idx >= Len(p.lines)
    THEN Quiet([p EXCEPT !.dragging_line_idx = -1])
    ELSE IF img_pos = NoPoint THEN Quiet(p)
    ELSE LET old_line == p.lines[p.dragging_line_idx + 1]
         IN  Emitting([p EXCEPT !.lines[p.dragging_line_idx + 1] =
                 IF p.dragging_line_end = 0
                 THEN << img_pos, old_line[2] >>
                 ELSE << old_line[1], img_pos >>])

MoveFaceCorner(p, img_pos) ==
    IF p.dragging_face_idx >= Len(p.faces)
    THEN Quiet([p EXCEPT !.dragging_face_idx = -1])
    ELSE IF img_pos = NoPoint THEN Quiet(p)
    ELSE Emitting([p EXCEPT
             !.faces[p.dragging_face_idx + 1][p.dragging_face_corner + 1] =
                 img_pos])

mouseMoveEvent(p, pos) ==
    LET img_pos == screen_to_image(p, pos)
    IN  IF p.panning THEN Quiet(p)
        ELSE IF p.dragging_idx # -1 THEN MovePoint(p, img_pos)
        ELSE IF p.dragging_line_idx # -1 THEN MoveLineEnd(p, img_pos)
        ELSE IF p.dragging_face_idx # -1 THEN MoveFaceCorner(p, img_pos)
        ELSE IF p.current_line_start # NoPoint
        THEN Quiet(IF img_pos = NoPoint THEN p
                   ELSE [p EXCEPT !.temp_line_end = img_pos])
        ELSE IF p.current_face_start # NoPoint
        THEN Quiet(IF img_pos = NoPoint THEN p
                   ELSE [p EXCEPT !.temp_face_end = img_pos])
        ELSE Quiet(p)

\* mouseReleaseEvent, first part: the drag indices are reset and a line
\* being drawn is finalised
ReleaseLine(p, button) ==
    LET q == [p EXCEPT !.dragging_idx = -1, !.dragging_line_idx = -1,
                       !.dragging_face_idx = -1]
    IN  IF q.current_line_start # NoPoint /\ button = "Left"
           /\ q.temp_line_end # NoPoint
        THEN Emitting([q EXCEPT
                 !.lines = Append(@, << q.current_line_start,
                                        q.temp_line_end >>),
                 !.current_line_start = NoPoint, !.temp_line_end = NoPoint])
        ELSE Quiet(q)

\* the face built from the two corners of a box drag: TL, TR, BR, BL
BoxFace(a, b) ==
    LET min_x == Min(a[1], b[1])
        max_x == Max(a[1], b[1])
        min_y == Min(a[2], b[2])
        max_y == Max(a[2], b[2])
    IN  << << min_x, min_y >>, << max_x, min_y >>,
           << max_x, max_y >>, << min_x, max_y >> >>

\* mouseReleaseEvent, second part: a face being drawn is finalised and the
\* middle button ends panning
ReleaseFace(p, button) ==
    LET q == IF button = "Middle" THEN [p EXCEPT !.panning = FALSE] ELSE p
    IN  IF p.current_face_start # NoPoint /\ button = "Left"
           /\ p.temp_face_end # NoPoint
        THEN Emitting([q EXCEPT
                 !.faces = Append(@, BoxFace(p.current_face_start,
                                             p.temp_face_end)),
                 !.current_face_start = NoPoint, !.temp_face_end = NoPoint])
        ELSE Quiet(q)

\* ------------------------------------------------------------ the files
\* cv2.imread: the image a path decodes to, None when it does not decode.
imread(path) ==
    IF path = "a.png" THEN [w |-> 2, h |-> 2, tag |-> "a.png"]
    ELSE IF path = "b.png" THEN [w |-> 3, h |-> 2, tag |-> "b.png"]
    ELSE IF path = "huge.png" THEN [w |-> 32768, h |-> 2, tag |-> "huge.png"]
    ELSE NoImage

\* what the file dialog of load_image(idx) can return: "" when cancelled, a
\* file that does not decode, image A of 2 x 2, image B of 3 x 2 or of
\* 32768 x 2
DialogPaths(idx) ==
    IF idx = 1 THEN {"", "a.png", "bad.png"} ELSE {"b.png", "huge.png"}

P0 == << 0, 0 >>

P1 == << 1, 1 >>

\* where the mouse is, in image coordinates
MousePos == { P1 }

\* the pane the mouse works on; the other pane's annotations come from
\* project files
MousePanes == { 1 }

\* the buttons pressed (the middle button only pans the display)
Buttons == {"Left", "Right"}

\* the radio buttons clicked
InputModes == {"POINT", "FACE"}

\* ------------------------------------------------------------- the state

VARIABLES
    cv_img1, cv_img2,         \* ImageAlignmentApp: the loaded images
    img1_path, img2_path,     \* and their paths
    warped_img2,              \* the last warp result
    pane,                     \* pane[1] = pane1 (A), pane[2] = pane2 (B)
    warp_combo,               \* warp_combo.currentIndex()
    btn_save,                 \* btn_save.isEnabled()
    point_list, current_row,  \* the list widget's rows and currentRow()
    view_img1, view_img2,     \* comparison_view.img1, .img2
    status,                   \* the status bar's message
    grab,                     \* the pane holding the left button (0: none)
    alive,                    \* the process is running
    last,                     \* what the last handler did
    call, result              \* a direct warp() call and what it gave

vars == << cv_img1, cv_img2, img1_path, img2_path, warped_img2, pane,
           warp_combo, btn_save, point_list, current_row, view_img1,
           view_img2, status, grab, alive, last, call, result >>

appVars == << cv_img1, cv_img2, img1_path, img2_path, warped_img2, pane,
              warp_combo, btn_save, point_list, current_row, view_img1,
              view_img2, status, grab, alive, last >>

\* the widgets run_warp writes
UI ==
    [warped_img2 |-> warped_img2, btn_save |-> btn_save,
     view_img1 |-> view_img1, view_img2 |-> view_img2, status |-> status]

SetUI(u) ==
    /\ warped_img2' = u.warped_img2
    /\ btn_save' = u.btn_save
    /\ view_img1' = u.view_img1
    /\ view_img2' = u.view_img2
    /\ status' = u.status

\* no direct call was made
NoCall ==
    [src |-> << >>, dst |-> << >>, img |-> NoImage, size |-> << 0, 0 >>,
     model |-> None]

NoResult ==
    [img |-> NoImage, calls |-> {}, solve |-> "none", rows |-> 0,
     ret |-> "none", exc |-> None]

\* run_warp was not invoked
NoInfo ==
    [src |-> << >>, dst |-> << >>, ret |-> "none", n |-> 0,
     method |-> "", called |-> FALSE, raised |-> FALSE, depth |-> 0,
     inputs |-> << >>]

\* what the last handler did: the handler (op), how often it ran run_warp
\* (nwarps), what the last of these invocations did (info) and whether an
\* exception left the handler (escaped).  A handler that did not reach
\* run_warp leaves Idle.
Idle ==
    [info |-> NoInfo, op |-> "idle",
     nwarps |-> 0,
     escaped |-> FALSE]

\* the annotation lists stay within the model's bounds
Bounded(p) ==
    /\ Len(p.points) <= MaxPoints
    /\ Len(p.lines) <= MaxLines
    /\ Len(p.faces) <= MaxFaces

\* a left press that starts drawing an annotation the bounds have no room for
StartsBeyondBound(p, q) ==
    \/ q.current_line_start # NoPoint /\ p.current_line_start = NoPoint
                                   /\ Len(p.lines) >= MaxLines
    \/ q.current_face_start # NoPoint /\ p.current_face_start = NoPoint
                                   /\ Len(p.faces) >= MaxFaces

InitApp ==
    /\ cv_img1 = NoImage /\ cv_img2 = NoImage
    /\ img1_path = None /\ img2_path = None
    /\ warped_img2 = NoImage
    /\ pane = [i \in 1..2 |-> NewPane]
    /\ warp_combo = 0
    /\ btn_save = FALSE
    /\ point_list = << >> /\ current_row = -1
    /\ view_img1 = NoImage /\ view_img2 = NoImage
    /\ status = "begin"
    /\ grab = 0
    /\ alive = TRUE
    /\ last = Idle

Init == InitApp /\ call = NoCall /\ result = NoResult

\* ------------------------------------------------------------ sync_points

\* the rows sync_points adds: max(pA,pB) point rows, max(lA,lB) line rows,
\* max(fA,fB) face rows
Rows(pane1, pane2) ==
    LET max_pts == Max(Len(pane1.points), Len(pane2.points))
        max_lns == Max(Len(pane1.lines), Len(pane2.lines))
        max_fcs == Max(Len(pane1.faces), Len(pane2.faces))
    IN  [k \in 1..(max_pts + max_lns + max_fcs) |->
            IF k <= max_pts THEN "Pt"
            ELSE IF k <= max_pts + max_lns THEN "Ln" ELSE "F"]

\* A handler that did not reach run_warp.
Unsynced(op) ==
    /\ last' = Idle
    /\ UNCHANGED << warped_img2, btn_save, view_img1, view_img2, status,
                    point_list, current_row, alive >>

\* The handler called run_warp k times, the last ending as r, with nothing
\* between run_warp and the slot's caller to catch an exception: one that
\* run_warp raises leaves the slot, and PyQt ends the process on an
\* exception no handler caught.
WarpedTimes(op, k, r) ==
    /\ SetUI(r.ui)
    /\ last' = [info |-> r.info, op |-> op, nwarps |-> k,
                escaped |-> r.info.raised]
    /\ alive' = ~ r.info.raised

Warped(op, r) == WarpedTimes(op, 1, r)

\* sync_points: the list is rebuilt (clear() leaves no current row), then
\* run_warp
Synced(op, pn) ==
    /\ point_list' = Rows(pn[1], pn[2])
    /\ current_row' = -1
    /\ \E r \in run_warp(pn[1], pn[2], cv_img1, cv_img2, warp_combo, UI) :
          Warped(op, r)

\* ------------------------------------------------------------ the actions
\* The buttons, the radio buttons, the combo box, the list and the file
\* dialogs are operated with the mouse: while a pane holds the left button
\* (grab # 0) Qt sends the mouse to that pane, and their handlers do not run.

\* load_image(idx): the dialog returns path
LoadImage(idx, path) ==
    /\ alive
    /\ grab = 0
    /\ UNCHANGED << warp_combo, grab, call, result >>
    /\ IF path = "" \/ imread(path) = NoImage
       THEN /\ UNCHANGED << cv_img1, cv_img2, img1_path, img2_path, pane >>
            /\ Unsynced("load_image")
       ELSE /\ cv_img1' = IF idx = 1 THEN imread(path) ELSE cv_img1
            /\ cv_img2' = IF idx = 1 THEN cv_img2 ELSE imread(path)
            /\ img1_path' = IF idx = 1 THEN path ELSE img1_path
            /\ img2_path' = IF idx = 1 THEN img2_path ELSE path
            /\ pane' = [pane EXCEPT ![idx] = set_image(@, imread(path))]
            /\ UNCHANGED << point_list, current_row >>
            /\ \E r \in run_warp(pane'[1], pane'[2], cv_img1', cv_img2',
                                 warp_combo, UI) :
                  Warped("load_image", r)

\* change_input_mode: a radio button was clicked
ChangeInputMode(mode) ==
    /\ alive
    /\ grab = 0
    /\ pane' = [i \in 1..2 |-> [pane[i] EXCEPT !.input_mode = mode]]
    /\ status' = "switched"
    /\ last' = Idle
    /\ UNCHANGED << cv_img1, cv_img2, img1_path, img2_path, warped_img2,
                    warp_combo, btn_save, point_list, current_row,
                    view_img1, view_img2, grab, alive, call, result >>

\* the user picks another warp method: currentTextChanged runs run_warp
WarpMethodChanged(idx) ==
    /\ alive
    /\ grab = 0
    /\ idx # warp_combo
    /\ warp_combo' = idx
    /\ UNCHANGED << cv_img1, cv_img2, img1_path, img2_path, pane,
                    point_list, current_row, grab, call, result >>
    /\ \E r \in run_warp(pane[1], pane[2], cv_img1, cv_img2, idx, UI) :
          Warped("warp_method", r)

\* a handler of pane i ended as e; pointsChanged is connected to sync_points
PaneHandled(op, i, e) ==
    /\ Bounded(e.pane)
    /\ pane' = [pane EXCEPT ![i] = e.pane]
    /\ UNCHANGED << cv_img1, cv_img2, img1_path, img2_path, warp_combo,
                    call, result >>
    /\ IF e.emit THEN Synced(op, pane') ELSE Unsynced(op)

\* mousePressEvent on pane i.  Qt delivers mouse events to the widget that
\* holds the left button until it is released.
MousePress(i, button, pos) ==
    /\ alive
    /\ IF button = "Left" THEN grab = 0 ELSE grab \in {0, i}
    /\ grab' = IF button = "Left" THEN i ELSE grab
    /\ LET e == mousePressEvent(pane[i], button, pos)
       IN  /\ ~ StartsBeyondBound(pane[i], e.pane)
           /\ PaneHandled("press", i, e)

\* mouseMoveEvent on pane i
MouseMove(i, pos) ==
    /\ alive
    /\ grab \in {0, i}
    /\ UNCHANGED grab
    /\ PaneHandled("move", i, mouseMoveEvent(pane[i], pos))

\* mouseReleaseEvent on pane i: a line and then a face may be finalised,
\* each with its own pointsChanged
MouseRelease(i, button) ==
    /\ alive
    /\ IF button = "Left" THEN grab = i ELSE grab \in {0, i}
    /\ grab' = IF button = "Left" THEN 0 ELSE grab
    /\ LET e1 == ReleaseLine(pane[i], button)
           e2 == ReleaseFace(e1.pane, button)
       IN  IF e1.emit /\ e2.emit
           THEN /\ Bounded(e2.pane)
                /\ UNCHANGED << cv_img1, cv_img2, img1_path, img2_path,
                                warp_combo, call, result >>
                /\ \E r1 \in run_warp(
                        IF i = 1 THEN e1.pane ELSE pane[1],
                        IF i = 2 THEN e1.pane ELSE pane[2],
                        cv_img1, cv_img2, warp_combo, UI) :
                     IF r1.info.raised
                     THEN /\ pane' = [pane EXCEPT ![i] = e1.pane]
                          /\ point_list' = Rows(pane'[1], pane'[2])
                          /\ current_row' = -1
                          /\ Warped("release", r1)
                     ELSE /\ pane' = [pane EXCEPT ![i] = e2.pane]
                          /\ point_list' = Rows(pane'[1], pane'[2])
                          /\ current_row' = -1
                          /\ \E r2 \in run_warp(pane'[1], pane'[2], cv_img1,
                                                cv_img2, warp_combo, r1.ui) :
                               WarpedTimes("release", 2, r2)
           ELSE PaneHandled("release", i,
                            [pane |-> e2.pane, emit |-> e1.emit \/ e2.emit])

\* the user selects row r of the list widget
SelectRow(r) ==
    /\ alive
    /\ grab = 0
    /\ r \in 0..(Len(point_list) - 1)
    /\ current_row' = r
    /\ last' = Idle
    /\ UNCHANGED << cv_img1, cv_img2, img1_path, img2_path, warped_img2, pane,
                    warp_combo, btn_save, point_list, view_img1, view_img2,
                    status, grab, alive, call, result >>

\* delete_selected_points taking the face rows to start after the point rows
DeleteRowFacesMisplaced(pane1, pane2, idx) ==
    LET max_pts == Max(Len(pane1.points), Len(pane2.points))
        max_lns == Max(Len(pane1.lines), Len(pane2.lines))
        line_idx == idx - max_pts
        face_idx == idx - max_pts
        popPoint(p) == IF idx < Len(p.points)
                       THEN [p EXCEPT !.points = PopAt(@, idx)] ELSE p
        popLine(p) == IF line_idx < Len(p.lines)
                      THEN [p EXCEPT !.lines = PopAt(@, line_idx)] ELSE p
        popFace(p) == IF face_idx < Len(p.faces)
                      THEN [p EXCEPT !.faces = PopAt(@, face_idx)] ELSE p
    IN  IF idx < max_pts THEN << popPoint(pane1), popPoint(pane2) >>
        ELSE IF idx < max_pts + max_lns
        THEN << popLine(pane1), popLine(pane2) >>
        ELSE << popFace(pane1), popFace(pane2) >>

\* delete_selected_points on row idx: what becomes of the two panes
DeleteRow(pane1, pane2, idx) ==
    LET max_pts == Max(Len(pane1.points), Len(pane2.points))
        max_lns == Max(Len(pane1.lines), Len(pane2.lines))
        line_idx == idx - max_pts
        face_idx == idx - max_pts - max_lns
        popPoint(p) == IF idx < Len(p.points)
                       THEN [p EXCEPT !.points = PopAt(@, idx)] ELSE p
        popLine(p) == IF line_idx < Len(p.lines)
                      THEN [p EXCEPT !.lines = PopAt(@, line_idx)] ELSE p
        popFace(p) == IF face_idx < Len(p.faces)
                      THEN [p EXCEPT !.faces = PopAt(@, face_idx)] ELSE p
    IN  IF idx < max_pts THEN << popPoint(pane1), popPoint(pane2) >>
        ELSE IF idx < max_pts + max_lns
        THEN << popLine(pane1), popLine(pane2) >>
        ELSE << popFace(pane1), popFace(pane2) >>

\* delete_selected_points
DeleteSelected ==
    /\ alive
    /\ grab = 0
    /\ UNCHANGED << cv_img1, cv_img2, img1_path, img2_path, warp_combo,
                    grab, call, result >>
    /\ IF current_row = -1
       THEN UNCHANGED pane /\ Unsynced("delete_selected")
       ELSE /\ pane' = DeleteRow(pane[1], pane[2], current_row)
            /\ Synced("delete_selected", pane')

\* clear_all_points: its status message follows sync_points
ClearAll ==
    /\ alive
    /\ grab = 0
    /\ UNCHANGED << cv_img1, cv_img2, img1_path, img2_path, warp_combo,
                    grab, call, result >>
    /\ pane' = [i \in 1..2 |-> [pane[i] EXCEPT !.points = << >>,
                                             !.lines = << >>,
                                             !.faces = << >>]]
    /\ point_list' = << >>
    /\ current_row' = -1
    /\ \E r \in run_warp(pane'[1], pane'[2], cv_img1, cv_img2, warp_combo,
                         UI) :
          Warped("clear_all",
                 IF r.info.raised THEN r
                 ELSE [r EXCEPT !.ui.status = "cleared"])

\* ------------------------------------------------------------ load_project
\* A project file is [json, img1_path, img2_path, pane1, pane2, warp_method]:
\* json is whether the file parses; a path of None is a missing key; a pane
\* is [present, points, lines, faces, bad]: present is whether the key is in
\* the file, bad names the list ("points", "lines", "faces") whose entries do
\* not have the shape to_tuples / to_lines / to_faces unpack, or is "none".

\* os.path.exists
Exists(path) == path \in {"a.png", "b.png", "huge.png", "bad.png"}

\* load_project's state as it goes: st = [cv_img, img_path, pane, failed]
\* with cv_img and img_path pairs indexed by 1, 2.

\* the block "if data.get(path) and os.path.exists(...)" for image idx:
\* set_image(None) raises on an image that does not decode, after the path
\* and the image field were assigned
LoadProjectImage(st, idx, path) ==
    IF path = None \/ ~ Exists(path) THEN st
    ELSE IF imread(path) = NoImage
    THEN [st EXCEPT !.img_path[idx] = path, !.cv_img[idx] = NoImage,
                    !.failed = TRUE]
    ELSE [st EXCEPT !.img_path[idx] = path, !.cv_img[idx] = imread(path),
                    !.pane[idx] = set_image(@, imread(path))]

\* the block "if pane in data": points, lines, faces assigned in this order,
\* each after its conversion succeeded
RestorePane(st, idx, pd) ==
    IF ~ pd.present THEN st
    ELSE IF pd.bad = "points" THEN [st EXCEPT !.failed = TRUE]
    ELSE IF pd.bad = "lines"
    THEN [st EXCEPT !.pane[idx].points = pd.points, !.failed = TRUE]
    ELSE IF pd.bad = "faces"
    THEN [st EXCEPT !.pane[idx].points = pd.points,
                    !.pane[idx].lines = pd.lines, !.failed = TRUE]
    ELSE [st EXCEPT !.pane[idx].points = pd.points,
                    !.pane[idx].lines = pd.lines,
                    !.pane[idx].faces = pd.faces]

\* load_project up to warp_combo.setCurrentIndex
RestoreProject(st, d) ==
    LET s1 == LoadProjectImage(st, 1, d.img1_path)
        s2 == IF s1.failed THEN s1 ELSE LoadProjectImage(s1, 2, d.img2_path)
        s3 == IF s2.failed THEN s2 ELSE RestorePane(s2, 1, d.pane1)
    IN  IF s3.failed THEN s3 ELSE RestorePane(s3, 2, d.pane2)

\* QComboBox.setCurrentIndex: an index that is no item leaves no current item
SetCurrentIndex(idx) == IF idx \in {0, 1} THEN idx ELSE -1

\* a pane of a project file
PaneData(points, lines, faces) ==
    [lines |-> lines, faces |-> faces, points |-> points, present |-> TRUE,
     bad |-> "none"]

NoPaneData ==
    [lines |-> << >>, faces |-> << >>, points |-> << >>, present |-> FALSE,
     bad |-> "none"]

OneFace == PaneData(<< >>, << >>, << BoxFace(P0, P1) >>)

\* a point at the origin and a box dragged down the left edge of the image
EdgeFace == PaneData(<< P0 >>, << >>, << BoxFace(P0, << 0, 1 >>) >>)

\* the project files the dialog of load_project can return
ProjectFiles ==
    { \* saved with image A only: one face pair, TPS selected
      [pane1 |-> OneFace, pane2 |-> OneFace, img1_path |-> "a.png",
       img2_path |-> None, json |-> TRUE, warp_method |-> 1],
      \* saved without images: a point pair and a face pair, pane1's on
      \* the left edge, TPS selected
      [pane1 |-> EdgeFace, pane2 |-> PaneData(<< P1 >>, << >>, << BoxFace(P0, P1) >>), img1_path |-> None,
       img2_path |-> None,
       json |-> TRUE,
       warp_method |-> 1],
      \* pane1's lines are malformed
      [pane1 |-> [PaneData(<< P1 >>, << >>, << >>) EXCEPT !.bad = "lines"], pane2 |-> PaneData(<< >>, << >>, << >>), img1_path |-> None,
       img2_path |-> None,
       json |-> TRUE, warp_method |-> 0] }

\* load_project's except branch
ProjectError(k, info, escaped) ==
    /\ status' = "error"
    /\ last' = [info |-> info, op |-> "load_project", nwarps |-> k,
                escaped |-> escaped]

\* load_project: the dialog returns the file d
LoadProject(d) ==
    /\ alive
    /\ grab = 0
    /\ UNCHANGED << grab, call, result >>
    /\ IF ~ d.json
       THEN /\ ProjectError(0, NoInfo, FALSE)
            /\ UNCHANGED << cv_img1, cv_img2, img1_path, img2_path,
                            warped_img2, pane, warp_combo, btn_save,
                            point_list, current_row, view_img1, view_img2,
                            alive >>
       ELSE LET st == RestoreProject(
                        [pane |-> pane,
                         cv_img |-> << cv_img1, cv_img2 >>,
                         img_path |-> << img1_path, img2_path >>, failed |-> FALSE], d)
                idx == SetCurrentIndex(d.warp_method)
            IN  /\ Bounded(st.pane[1]) /\ Bounded(st.pane[2])
                /\ cv_img1' = st.cv_img[1] /\ cv_img2' = st.cv_img[2]
                /\ img1_path' = st.img_path[1] /\ img2_path' = st.img_path[2]
                /\ pane' = st.pane
                /\ IF st.failed
                   THEN /\ ProjectError(0, NoInfo, FALSE)
                        /\ UNCHANGED << warped_img2, warp_combo, btn_save,
                                        point_list, current_row, view_img1,
                                        view_img2, alive >>
                   ELSE /\ warp_combo' = idx
                        /\ \E r1 \in
                             IF ComboText(idx) # ComboText(warp_combo)
                             THEN run_warp(st.pane[1], st.pane[2],
                                           st.cv_img[1], st.cv_img[2], idx, UI)
                             ELSE { [ui |-> UI, info |-> NoInfo] } :
                           LET k == IF r1.info = NoInfo THEN 0 ELSE 1
                           IN
                           IF r1.info.raised
                           THEN \* the exception leaves the combo's slot
                                /\ WarpedTimes("load_project", 1, r1)
                                /\ UNCHANGED << point_list, current_row >>
                           ELSE /\ point_list' = Rows(st.pane[1], st.pane[2])
                                /\ current_row' = -1
                                /\ alive' = TRUE
                                /\ \E r2 \in run_warp(st.pane[1], st.pane[2],
                                                      st.cv_img[1],
                                                      st.cv_img[2], idx,
                                                      r1.ui) :
                                     /\ warped_img2' = r2.ui.warped_img2
                                     /\ btn_save' = r2.ui.btn_save
                                     /\ view_img1' = r2.ui.view_img1
                                     /\ view_img2' = r2.ui.view_img2
                                     /\ IF r2.info.raised
                                        THEN ProjectError(k + 1, r2.info,
                                                          FALSE)
                                        ELSE /\ status' = "loaded"
                                             /\ last' =
                                                  [info |-> r2.info,
                                                   op |-> "load_project",
                                                   nwarps |-> k + 1,
                                                   escaped |-> FALSE]

\* ---------------------------------------------------------- specification

Next ==
    \/ \E idx \in 1..2 : \E path \in DialogPaths(idx) : LoadImage(idx, path)
    \/ \E mode \in InputModes : ChangeInputMode(mode)
    \/ \E idx \in 0..1 : WarpMethodChanged(idx)
    \/ \E i \in MousePanes, b \in Buttons, pos \in MousePos :
          MousePress(i, b, pos)
    \/ \E i \in MousePanes, pos \in MousePos : MouseMove(i, pos)
    \/ \E i \in MousePanes, b \in Buttons : MouseRelease(i, b)
    \/ \E r \in 0..(MaxPoints + MaxLines + MaxFaces - 1) : SelectRow(r)
    \/ DeleteSelected
    \/ ClearAll
    \/ \E d \in ProjectFiles : LoadProject(d)

Spec == Init /\ [][Next]_vars

\* ------------------------------------------------- the warpers, called
\* directly: warp(img_src, src_pts, dst_pts, output_size) on arrays of any
\* lengths, outside run_warp's guard.

\* the coordinates of the control points
WarpPts == { << 0, 0 >>, << 1, 0 >>, << 1, 1 >>, << 0, 1 >> }

\* the arrays of k control points
PtSeqs(k) == [1..k -> WarpPts]

\* k source points: the corners of the unit square, in order, repeated
SrcPts(k) ==
    [i \in 1..k |-> IF i % 4 = 1 THEN << 0, 0 >>
                    ELSE IF i % 4 = 2 THEN << 1, 0 >>
                    ELSE IF i % 4 = 3 THEN << 1, 1 >>
                    ELSE << 0, 1 >>]

\* the source images of a direct call
WarpImages == { imread("a.png"), imread("huge.png") }

\* the calls made: k source points against m destination points
WarpCalls ==
    { [src |-> SrcPts(k), dst |-> dst, img |-> img, size |-> << 2, 2 >>,
       model |-> model] :
        k \in 1..MaxN, dst \in UNION { PtSeqs(m) : m \in 1..MaxN },
        img \in WarpImages, model \in {"Homography", "TPS"} }

InitWarper == InitApp /\ call \in WarpCalls /\ result = NoResult

\* HomographyWarper().warp(call.img, call.src, call.dst, call.size)
CallHomographyWarper ==
    /\ call.model = "Homography"
    /\ result = NoResult
    /\ result' \in HomographyWarper_warp(call.img, call.src, call.dst,
                                          call.size)
    /\ UNCHANGED << appVars, call >>

\* TPSWarper().warp(call.img, call.src, call.dst, call.size)
CallTPSWarper ==
    /\ call.model = "TPS"
    /\ result = NoResult
    /\ result' \in TPSWarper_warp(call.img, call.src, call.dst, call.size)
    /\ UNCHANGED << appVars, call >>

NextWarper == CallHomographyWarper \/ CallTPSWarper

SpecWarper == InitWarper /\ [][NextWarper]_vars

\* ------------------------------------------------- the TPS fit, in numbers
\* TPSWarper.warp solves (K + 1e-4 I) w + P a = V, P^T w = 0 and evaluates
\* U w + [1, x, y] a with the same kernel U(d) = 0.5 * d * log(d), d clamped
\* at 1e-10.  Lengths are kept in units of 1e-4 as integers.

\* 0.5 * d_sq * log(max(d_sq, 1e-10)) in units of 1e-4, rounded, for the
\* squared distances of a 3 x 3 pixel grid
KernelE4(d_sq) ==
    IF d_sq = 0 THEN 0
    ELSE IF d_sq = 1 THEN 0
    ELSE IF d_sq = 2 THEN 6931
    ELSE IF d_sq = 4 THEN 27726
    ELSE IF d_sq = 5 THEN 40236
    ELSE 83178

\* np.sum(diff**2, axis=-1)
DistSq(p, q) == (p[1] - q[1]) * (p[1] - q[1]) + (p[2] - q[2]) * (p[2] - q[2])

\* For N = 4 the rows P^T w = 0 of the system leave w = c * s, with s the
\* vector orthogonal to the columns of P = [1, x, y] (its signed 3 x 3
\* minors).
NullVector(dst) ==
    << Cross(dst[2], dst[3], dst[4]), - Cross(dst[1], dst[3], dst[4]),
       Cross(dst[1], dst[2], dst[4]), - Cross(dst[1], dst[2], dst[3]) >>

\* s^T (K + 1e-4 I) s in units of 1e-4
RegularisedForm(dst) ==
    LET s == NullVector(dst)
        row(i) == s[i] * ( s[1] * KernelE4(DistSq(dst[i], dst[1]))
                         + s[2] * KernelE4(DistSq(dst[i], dst[2]))
                         + s[3] * KernelE4(DistSq(dst[i], dst[3]))
                         + s[4] * KernelE4(DistSq(dst[i], dst[4]))
                         + s[i] )
    IN  row(1) + row(2) + row(3) + row(4)

Abs(x) == IF x < 0 THEN - x ELSE x

\* Multiplying the first N rows by s^T gives c = (s . v) / s^T (K + 1e-4 I) s
\* for each coordinate v of src.  At dst[i] the evaluation gives
\* (K w + P a)[i] = v[i] - 1e-4 * w[i]: the spline misses src[i] by
\* 1e-4 * |c * s[i]| in that coordinate.  This is whether the miss is at
\* most 1e-3 pixels in coordinate k (1: x, 2: y).
ControlResidualWithin(src, dst, i, k) ==
    LET s == NullVector(dst)
        sv == s[1] * src[1][k] + s[2] * src[2][k] + s[3] * src[3][k]
              + s[4] * src[4][k]
    IN  1000 * Abs(sv * s[i]) <= Abs(RegularisedForm(dst))

\* four source points, one of them FarX pixels to the right
FarSrc == << << 0, 0 >>, << 1, 0 >>, << FarX, 1 >>, << 0, 1 >> >>

\* the TPS calls made with four pairs
TPSFitCalls ==
    { [src |-> src, dst |-> dst, img |-> imread("a.png"),
       size |-> << 2, 2 >>, model |-> "TPS"] :
        src \in { SrcPts(4), FarSrc }, dst \in PtSeqs(4) }

InitTPSFit == InitApp /\ call \in TPSFitCalls /\ result = NoResult

SpecTPSFit == InitTPSFit /\ [][CallTPSWarper]_vars

\* ------------------------------------------------- the TPS system, assembled
\* L and V as TPSWarper.warp fills them, entry by entry.  The entries of L
\* are kept in units of 1e-4: an entry 1 of P is E4 and the regularisation
\* 1e-4 is 1.  V holds pixel coordinates.

\* 1 / 1e-4: the unit of the entries of L
E4 == 10000

\* K = 0.5 * dist_sq * np.log(dist_sq) over the pairs of dst_pts
K(dst_pts) ==
    [i \in 1..Len(dst_pts) |->
        [j \in 1..Len(dst_pts) |->
            KernelE4(DistSq(dst_pts[i], dst_pts[j]))]]

\* P = np.column_stack((np.ones(N), dst_pts))
P(dst_pts) ==
    [i \in 1..Len(dst_pts) |-> << 1, dst_pts[i][1], dst_pts[i][2] >>]

\* L = np.zeros((N + 3, N + 3)); L[:N, :N] = K; L[:N, N:] = P;
\* L[N:, :N] = P.T
BlocksOfL(dst_pts) ==
    LET n == Len(dst_pts)
    IN  [r \in 1..(n + 3) |->
            [c \in 1..(n + 3) |->
                IF r <= n /\ c <= n THEN K(dst_pts)[r][c]
                ELSE IF r <= n THEN E4 * P(dst_pts)[r][c - n]
                ELSE IF c <= n THEN E4 * P(dst_pts)[c][r - n]
                ELSE 0]]

\* 1e-4 added along the whole diagonal of the matrix
RegulariseWhole(m, n) ==
    [r \in 1..Len(m) |->
        [c \in 1..Len(m) |-> m[r][c] + (IF r = c THEN 1 ELSE 0)]]

\* L[:N, :N] += np.eye(N) * 1e-4
Regularise(m, n) ==
    [r \in 1..Len(m) |->
        [c \in 1..Len(m) |->
            m[r][c] + (IF r = c /\ r <= n THEN 1 ELSE 0)]]

\* the matrix np.linalg.solve is given
L(dst_pts) == Regularise(BlocksOfL(dst_pts), Len(dst_pts))

\* V = np.zeros((N + 3, 2)); V[:N, :] = src_pts, a source of one row
\* broadcast to the N rows
V(src_pts, dst_pts) ==
    [r \in 1..(Len(dst_pts) + 3) |->
        IF r > Len(dst_pts) THEN << 0, 0 >>
        ELSE IF Len(src_pts) = 1 THEN src_pts[1]
        ELSE src_pts[r]]

\* the call assembled its system: the assignment to V went through
Assembled ==
    /\ call.model = "TPS"
    /\ result # NoResult
    /\ result.solve # "none"

\* ------------------------------------------------- the dense map, in numbers
\* The solution of L [w; a] = V for N = 4 control points that are distinct
\* and not all on a line, and the map evaluated from it, in exact integer
\* arithmetic.  The last three rows P^T w = 0 leave w = c * s with
\* s = NullVector(dst_pts); s^T times the first N rows gives
\* c = E4 * (s . v) / D with D = s^T L[:N, :N] s; the first N rows then read
\* D * (P a) = D * v - (L[:N, :N] s) * (s . v).

\* the destination points are pairwise distinct and not all on one line
DistinctControls(dst) ==
    /\ \A i, j \in 1..Len(dst) : i # j => dst[i] # dst[j]
    /\ ~ AllCollinear(dst)

\* the fits solved here
FitOfFour(src_pts, dst_pts) ==
    /\ Len(dst_pts) = 4
    /\ Len(src_pts) = 4
    /\ DistinctControls(dst_pts)

\* s . v for column k of V
NullDotV(src_pts, dst_pts, k) ==
    LET s == NullVector(dst_pts)
        Vm == V(src_pts, dst_pts)
    IN  s[1] * Vm[1][k] + s[2] * Vm[2][k] + s[3] * Vm[3][k]
          + s[4] * Vm[4][k]

\* row i of L[:N, :N] times s
BlockTimesNull(dst_pts, i) ==
    LET s == NullVector(dst_pts)
        Lm == L(dst_pts)
    IN  Lm[i][1] * s[1] + Lm[i][2] * s[2] + Lm[i][3] * s[3]
          + Lm[i][4] * s[4]

\* D = s^T L[:N, :N] s
FormOfL(dst_pts) ==
    LET s == NullVector(dst_pts)
    IN  s[1] * BlockTimesNull(dst_pts, 1) + s[2] * BlockTimesNull(dst_pts, 2)
          + s[3] * BlockTimesNull(dst_pts, 3)
          + s[4] * BlockTimesNull(dst_pts, 4)

\* w_vals = weights[:N, :], column k, times D / E4
w_vals(src_pts, dst_pts, k) ==
    [j \in 1..4 |-> NullVector(dst_pts)[j] * NullDotV(src_pts, dst_pts, k)]

\* D * (P a)[i] for column k
AffineTarget(src_pts, dst_pts, i, k) ==
    FormOfL(dst_pts) * V(src_pts, dst_pts)[i][k]
      - BlockTimesNull(dst_pts, i) * NullDotV(src_pts, dst_pts, k)

\* the determinant of a 3 x 3 matrix
Det3(m) ==
      m[1][1] * (m[2][2] * m[3][3] - m[2][3] * m[3][2])
    - m[1][2] * (m[2][1] * m[3][3] - m[2][3] * m[3][1])
    + m[1][3] * (m[2][1] * m[3][2] - m[2][2] * m[3][1])

\* three control points that are not on a line
Triangle(dst_pts) ==
    CHOOSE t \in (1..4) \X (1..4) \X (1..4) :
        /\ t[1] < t[2] /\ t[2] < t[3]
        /\ Cross(dst_pts[t[1]], dst_pts[t[2]], dst_pts[t[3]]) # 0

\* the determinant of the rows of P at the triangle
DetOfP(dst_pts) ==
    LET t == Triangle(dst_pts)
    IN  Det3([i \in 1..3 |-> P(dst_pts)[t[i]]])

\* a_vals = weights[N:, :], column k, times D * DetOfP: Cramer's rule on the
\* rows of the triangle
a_vals(src_pts, dst_pts, k) ==
    LET t == Triangle(dst_pts)
        rows == [i \in 1..3 |-> P(dst_pts)[t[i]]]
        rhs == [i \in 1..3 |-> AffineTarget(src_pts, dst_pts, t[i], k)]
    IN  [c \in 1..3 |->
            Det3([i \in 1..3 |->
                    [j \in 1..3 |-> IF j = c THEN rhs[i] ELSE rows[i][j]]])]

\* the centres of the radial functions taken at the source points
CentresAtSource(src_pts, dst_pts) == src_pts

\* d_diff = row_pts[:, None, :] - dst_pts[None, :, :]: the radial functions
\* of the dense map are centred at the destination control points
Centres(src_pts, dst_pts) == dst_pts

\* U = 0.5 * d_sq * np.log(d_sq) for the pixel px, in units of 1e-4
U(src_pts, dst_pts, px) ==
    [j \in 1..4 |-> KernelE4(DistSq(px, Centres(src_pts, dst_pts)[j]))]

\* the factor the dense map is kept in: D * DetOfP
MapScale(dst_pts) == FormOfL(dst_pts) * DetOfP(dst_pts)

\* mapped_pts = affine_part + non_linear_part for pixel px, coordinate k,
\* times MapScale
mapped_pts(src_pts, dst_pts, px, k) ==
    LET a == a_vals(src_pts, dst_pts, k)
        w == w_vals(src_pts, dst_pts, k)
        u == U(src_pts, dst_pts, px)
    IN  a[1] + a[2] * px[1] + a[3] * px[2]
          + DetOfP(dst_pts) * (u[1] * w[1] + u[2] * w[2] + u[3] * w[3]
                                 + u[4] * w[4])

\* ------------------------------------------------- the sampling map
\* Where a warp samples the source for a destination pixel, for the fits
\* that are affine with small integer coefficients.

\* the maps (x, y) -> (m1 + m2 x + m3 y, m4 + m5 x + m6 y)
AffineMaps == [1..6 -> -1..1]

ApplyAffine(m, p) ==
    << m[1] + m[2] * p[1] + m[3] * p[2], m[4] + m[5] * p[1] + m[6] * p[2] >>

\* the map sends every from[i] to to[i]
Fits(m, from, to) ==
    /\ Len(from) = Len(to)
    /\ \A i \in 1..Len(from) : ApplyAffine(m, from[i]) = to[i]

\* the targets of the fit taken as displacements src - dst
TargetsAsDisplacement(src_pts, dst_pts) ==
    [i \in 1..Len(src_pts) |->
        << src_pts[i][1] - dst_pts[i][1], src_pts[i][2] - dst_pts[i][2] >>]

\* V[:N, :] = src_pts: the targets of the TPS fit are the source positions
Targets(src_pts, dst_pts) == src_pts

\* TPSWarper.warp: the source coordinate map_x, map_y hold for pixel px.
\* When the targets are an affine function m of dst_pts, w = 0 and a = m
\* satisfy every row of L [w; a] = V, and L is regular: the dense map is m.
\* NoPoint where the fit is not of this kind.
TPSSample(src_pts, dst_pts, px) ==
    LET v == Targets(src_pts, dst_pts)
    IN  IF \E m \in AffineMaps : Fits(m, dst_pts, v)
        THEN ApplyAffine(CHOOSE m \in AffineMaps : Fits(m, dst_pts, v), px)
        ELSE NoPoint

\* HomographyWarper.warp: findHomography gives the H with H src = dst and
\* warpPerspective samples the source at the q with H q = px.  NoPoint where
\* H is not one of AffineMaps or no pixel q of the source is sent to px.
HomographySample(img_src, src_pts, dst_pts, px) ==
    IF \E m \in AffineMaps : Fits(m, src_pts, dst_pts)
    THEN LET m == CHOOSE m \in AffineMaps : Fits(m, src_pts, dst_pts)
             hit(q) == ApplyAffine(m, q) = px
             grid == (0..(img_src.w - 1)) \X (0..(img_src.h - 1))
         IN  IF \E q \in grid : hit(q) THEN CHOOSE q \in grid : hit(q)
             ELSE NoPoint
    ELSE NoPoint

\* ------------------------------------------------- resampling
\* How the two library calls that produce the warped image sample the
\* source: the arguments warp() passes, and the library's defaults for those
\* it does not pass.

\* the flags argument: cv2.remap is given cv2.INTER_CUBIC; warpPerspective
\* is given none and uses its default, INTER_LINEAR
Interpolation(c) ==
    IF c = "remap" THEN "INTER_CUBIC"
    ELSE IF c = "warpPerspective" THEN "INTER_LINEAR"
    ELSE None

\* the library calls of a result that resample the source image
Resamplers(r) == r.calls \cap {"warpPerspective", "remap"}

\* a border mode that leaves the destination pixel as it was allocated
BorderModeTransparent(c) == "BORDER_TRANSPARENT"

\* the borderMode argument: neither call is given one, both use the
\* library's default, BORDER_CONSTANT, with the default borderValue 0
BorderMode(c) == "BORDER_CONSTANT"

\* Source coordinates are kept in quarters of a pixel (q4 = 4 * coordinate).

\* the source columns (or rows) that enter the value sampled at q4 with a
\* weight that is not zero: the pixel itself at a whole coordinate, else the
\* 2 neighbours (INTER_LINEAR) or the 4 neighbours (INTER_CUBIC)
Taps(c, q4) ==
    LET base == q4 \div 4
    IN  IF q4 % 4 = 0 THEN {base}
        ELSE IF Interpolation(c) = "INTER_CUBIC" THEN (base - 1)..(base + 2)
        ELSE base..(base + 1)

\* how far from a coordinate the interpolation reaches, in quarters
Reach(c) == IF Interpolation(c) = "INTER_CUBIC" THEN 8 ELSE 4

\* what a tap contributes: a pixel of the source when it is inside the
\* image; outside, the constant 0 under BORDER_CONSTANT and whatever the
\* destination buffer held under a mode that does not write
TapValue(c, img, t) ==
    IF t[1] \in 0..(img.w - 1) /\ t[2] \in 0..(img.h - 1) THEN "source"
    ELSE IF BorderMode(c) = "BORDER_CONSTANT" THEN "black"
    ELSE "unset"

\* what enters the destination pixel sampled at q (a pair of quarters)
Contributions(c, img, q) ==
    { TapValue(c, img, t) : t \in Taps(c, q[1]) \X Taps(c, q[2]) }

\* the coordinate lies outside the area the image's pixels cover
OutsideImage(img, q) ==
    \/ q[1] < -2 \/ q[1] > 4 * (img.w - 1) + 2
    \/ q[2] < -2 \/ q[2] > 4 * (img.h - 1) + 2

\* the coordinate lies outside by the reach of the interpolation or more
FarOutside(c, img, q) ==
    \/ q[1] <= - Reach(c) \/ q[1] >= 4 * (img.w - 1) + Reach(c)
    \/ q[2] <= - Reach(c) \/ q[2] >= 4 * (img.h - 1) + Reach(c)

\* a sequence of points in quarters
Quarters(pts) == [i \in 1..Len(pts) |-> << 4 * pts[i][1], 4 * pts[i][2] >>]

\* Where the warp of a call samples the source for pixel px, in quarters:
\* TPS evaluates the map m with m(dst) = src, the homography warp samples
\* at the q with H q = px for the H with H src = dst.  NoPoint where the fit
\* is not one of AffineMaps.
SampleQ(c, px) ==
    IF c.model = "TPS"
    THEN IF \E m \in AffineMaps :
               Fits(m, c.dst, Quarters(Targets(c.src, c.dst)))
         THEN ApplyAffine(CHOOSE m \in AffineMaps :
                   Fits(m, c.dst, Quarters(Targets(c.src, c.dst))), px)
         ELSE NoPoint
    ELSE IF \E m \in AffineMaps : Fits(m, Quarters(c.src), c.dst)
         THEN LET m == CHOOSE m \in AffineMaps : Fits(m, Quarters(c.src), c.dst)
                  hit(q) == ApplyAffine(m, q) = px
                  grid == (-4..(4 * MaxOut)) \X (-4..(4 * MaxOut))
              IN  IF \E q \in grid : hit(q) THEN CHOOSE q \in grid : hit(q)
                  ELSE NoPoint
         ELSE NoPoint

\* the corners of a square of 4 pixels, d pixels to the right of the origin
WideDst(d) ==
    << << d, 0 >>, << 4 + d, 0 >>, << 4 + d, 4 >>, << d, 4 >> >>

\* the calls that enlarge the source 4 times: the corners of the source's
\* unit square are sent to those of a square of 4 pixels
ResampleCalls ==
    { [src |-> SrcPts(4), dst |-> WideDst(d), img |-> img,
       size |-> << w, h >>, model |-> model] :
        d \in 0..1, img \in { imread("a.png"), imread("b.png") },
        w \in 1..MaxOut, h \in 1..MaxOut, model \in {"Homography", "TPS"} }

InitResample == InitApp /\ call \in ResampleCalls /\ result = NoResult

SpecResample == InitResample /\ [][NextWarper]_vars

\* ------------------------------------------- coordinates that are not finite
\* run_warp and load_project take coordinates as they come: a project file
\* may hold NaN or a number beyond the float32 range, which
\* np.array(pts, dtype=np.float32) stores as nan or inf.

\* the point standing for one whose coordinates are stored as nan or inf
NonFinitePoint == << -1, -1 >>

\* np.isfinite(pts).all()
IsFinite(pts) == \A i \in 1..Len(pts) : pts[i] # NonFinitePoint

\* The weights of the TPS system are finite: L is built from dst alone and V
\* is src, and np.linalg.solve carries a nan or inf of V into the weights
\* without raising; the dense map is a sum of multiples of the weights.
WeightsFinite(c) == IsFinite(c.src) /\ IsFinite(c.dst)

\* TPS calls on the corners of a square whose source points may not be finite
NonFiniteCalls ==
    { [src |-> src, dst |-> SrcPts(4), img |-> imread("a.png"),
       size |-> << 2, 2 >>, model |-> "TPS"] :
        src \in [1..4 -> WarpPts \cup {NonFinitePoint}] }

InitNonFinite == InitApp /\ call \in NonFiniteCalls /\ result = NoResult

SpecNonFinite == InitNonFinite /\ [][CallTPSWarper]_vars

\* ------------------------------------------------------ the canvas of pane A
\* Image A is loaded and the Face radio button is checked; the mouse then
\* works on pane A: box drags, corner drags, right clicks, and the Delete
\* Selected and Clear All buttons.

\* where the mouse is pressed and moved on the canvas
CanvasPos == WarpPts

\* load_image(1) returned a.png and change_input_mode set FACE
CanvasReady ==
    /\ cv_img1 = imread("a.png") /\ cv_img2 = NoImage
    /\ img1_path = "a.png" /\ img2_path = None
    /\ warped_img2 = NoImage
    /\ pane = [i \in 1..2 |->
                 [(IF i = 1 THEN set_image(NewPane, imread("a.png"))
                   ELSE NewPane) EXCEPT !.input_mode = "FACE"]]
    /\ warp_combo = 0
    /\ btn_save = FALSE
    /\ point_list = << >> /\ current_row = -1
    /\ view_img1 = imread("a.png") /\ view_img2 = NoImage
    /\ status = "switched"
    /\ grab = 0
    /\ alive = TRUE
    /\ last = Idle

InitCanvas == CanvasReady /\ call = NoCall /\ result = NoResult

NextCanvas ==
    \/ \E b \in Buttons, pos \in CanvasPos : MousePress(1, b, pos)
    \/ \E pos \in CanvasPos : MouseMove(1, pos)
    \/ \E b \in Buttons : MouseRelease(1, b)
    \/ \E r \in 0..(MaxFaces - 1) : SelectRow(r)
    \/ DeleteSelected
    \/ ClearAll

SpecCanvas == InitCanvas /\ [][NextCanvas]_vars

\* the four corners are those of the face's bounding box, in the order
\* top-left, top-right, bottom-right, bottom-left
InCornerOrder(f) ==
    /\ Len(f) = 4
    /\ f[1][1] = f[4][1] /\ f[2][1] = f[3][1]
    /\ f[1][2] = f[2][2] /\ f[4][2] = f[3][2]
    /\ f[1][1] <= f[2][1]
    /\ f[1][2] <= f[4][2]

\* ------------------------------------------------- the row loop, stepped
\* TPSWarper.warp after the solve, one iteration of "for y in
\* range(target_h)" per step.  While the loop runs, result is the frame of
\* the call: y is the next value range() yields, map_x and map_y count for
\* every entry how often it was assigned, pc is "loop" or, after the loop,
\* "remap".

\* map_x = np.zeros((target_h, target_w)): no entry assigned yet
NoWrites(target_w, target_h) ==
    [r \in 0..(target_h - 1) |-> [c \in 0..(target_w - 1) |-> 0]]

\* an assignment that lands in the first row whatever y is
RowAssignedFirst(y) == 0

\* map_x[y, :] = ...: the row the iteration for y assigns
RowAssigned(y) == y

\* the assignment map[y, :] = mapped_pts[:, k]
AssignRow(map, y) ==
    [map EXCEPT ![RowAssigned(y)] = [c \in DOMAIN @ |-> @[c] + 1]]

\* the frame when the loop is entered
LoopEntered(target_w, target_h) ==
    [y |-> 0, map_x |-> NoWrites(target_w, target_h),
     map_y |-> NoWrites(target_w, target_h), pc |-> "loop"]

\* result is a frame, not yet what the call returned
InFrame == "pc" \in DOMAIN result

\* the TPS calls stepped: four pairs on the unit square, any output size
LoopCalls ==
    { [src |-> SrcPts(4), dst |-> SrcPts(4), img |-> imread("a.png"),
       size |-> << w, h >>, model |-> "TPS"] :
        w \in 1..MaxOut, h \in 1..MaxOut }

InitLoop ==
    /\ InitApp
    /\ call \in LoopCalls
    /\ result = LoopEntered(call.size[1], call.size[2])

\* one iteration: range() yields y, the row is computed and assigned
LoopIteration ==
    /\ InFrame
    /\ result.pc = "loop"
    /\ result.y < call.size[2]
    /\ result' = [result EXCEPT !.y = @ + 1,
                                !.map_x = AssignRow(@, result.y),
                                !.map_y = AssignRow(@, result.y)]
    /\ UNCHANGED << appVars, call >>

\* range() is exhausted
LoopExit ==
    /\ InFrame
    /\ result.pc = "loop"
    /\ result.y >= call.size[2]
    /\ result' = [result EXCEPT !.pc = "remap"]
    /\ UNCHANGED << appVars, call >>

\* return cv2.remap(img_src, map_x, map_y, cv2.INTER_CUBIC)
LoopRemap ==
    /\ InFrame
    /\ result.pc = "remap"
    /\ result' = cv2_remap(call.img, call.size)
    /\ UNCHANGED << appVars, call >>

NextLoop == LoopIteration \/ LoopExit \/ LoopRemap

\* the interpreter keeps running the call
SpecLoop == InitLoop /\ [][NextLoop]_vars /\ WF_vars(NextLoop)

\* ------------------------------------------------- annotations and the image
\* Pane A worked with the mouse, also outside the image, and restored from
\* project files.

\* where the mouse is: on the image's first pixel and beyond its last
RestorePos == { P0, << 2, 2 >> }

\* a project saved with image A whose pane1 point is right of the image
\* (the image file was replaced by a narrower one, or the file was edited)
OutsideFile ==
    [pane1 |-> PaneData(<< << 2, 1 >> >>, << >>, << >>),
     pane2 |-> NoPaneData, img1_path |-> "a.png", img2_path |-> None,
     json |-> TRUE, warp_method |-> 0]

\* the project files the dialog returns here
RestoreFiles ==
    { OutsideFile } \cup { d \in ProjectFiles : d.img1_path = "a.png" }

NextRestore ==
    \/ LoadImage(1, "a.png")
    \/ \E mode \in InputModes : ChangeInputMode(mode)
    \/ \E b \in Buttons, pos \in RestorePos : MousePress(1, b, pos)
    \/ \E pos \in RestorePos : MouseMove(1, pos)
    \/ \E b \in Buttons : MouseRelease(1, b)
    \/ \E d \in RestoreFiles : LoadProject(d)

SpecRestore == Init /\ [][NextRestore]_vars

\* the point is a pixel of the pane's image
InsideImage(p, pt) ==
    /\ pt[1] \in 0..(p.pixmap.w - 1)
    /\ pt[2] \in 0..(p.pixmap.h - 1)

\* every point, line endpoint and face corner of the pane
StoredPoints(p) ==
    { p.points[k] : k \in 1..Len(p.points) }
      \cup { p.lines[k][e] : k \in 1..Len(p.lines), e \in 1..2 }
      \cup UNION { { p.faces[k][j] : j \in 1..Len(p.faces[k]) } :
                     k \in 1..Len(p.faces) }

\* ------------------------------------------------- drags on pane A
\* Image A is loaded and one of the three radio buttons is checked; the mouse
\* then works on pane A and the Delete Selected and Clear All buttons are
\* clicked.

\* the radio buttons: Point, Line, Face
AllInputModes == {"POINT", "LINE", "FACE"}

InitDrag ==
    /\ call = NoCall /\ result = NoResult
    /\ \E mode \in AllInputModes :
          /\ pane = [i \in 1..2 |->
                       [(IF i = 1 THEN set_image(NewPane, imread("a.png"))
                         ELSE NewPane) EXCEPT !.input_mode = mode]]
          /\ cv_img1 = imread("a.png") /\ cv_img2 = NoImage
          /\ img1_path = "a.png" /\ img2_path = None
          /\ warped_img2 = NoImage
          /\ warp_combo = 0
          /\ btn_save = FALSE
          /\ point_list = << >> /\ current_row = -1
          /\ view_img1 = imread("a.png") /\ view_img2 = NoImage
          /\ status = "switched"
          /\ grab = 0
          /\ alive = TRUE
          /\ last = Idle

SpecDrag == InitDrag /\ [][NextCanvas]_vars

\* the subscripts mouseMoveEvent applies in state p, each with the length of
\* the list it is applied to: points[dragging_idx], lines[dragging_line_idx],
\* faces[dragging_face_idx] and face_pts[dragging_face_corner]
MoveSubscripts(p) ==
    IF p.panning THEN {}
    ELSE IF p.dragging_idx # -1
    THEN IF p.dragging_idx >= Len(p.points) THEN {}
         ELSE { << Len(p.points), p.dragging_idx >> }
    ELSE IF p.dragging_line_idx # -1
    THEN IF p.dragging_line_idx >= Len(p.lines) THEN {}
         ELSE { << Len(p.lines), p.dragging_line_idx >> }
    ELSE IF p.dragging_face_idx # -1
    THEN IF p.dragging_face_idx >= Len(p.faces) THEN {}
         ELSE { << Len(p.faces), p.dragging_face_idx >>,
                << Len(p.faces[p.dragging_face_idx + 1]),
                   p.dragging_face_corner >> }
    ELSE {}

\* the drag index of the branch mouseMoveEvent takes, -1 when it takes none
\* of the three drag branches
DragIndex(p) ==
    IF p.dragging_idx # -1 THEN p.dragging_idx
    ELSE IF p.dragging_line_idx # -1 THEN p.dragging_line_idx
    ELSE p.dragging_face_idx

\* the list the drag index of that branch is applied to
DragList(p) ==
    IF p.dragging_idx # -1 THEN p.points
    ELSE IF p.dragging_line_idx # -1 THEN p.lines
    ELSE p.faces

\* the element being dragged is no longer there
StaleDrag(p) == DragIndex(p) # -1 /\ DragIndex(p) >= Len(DragList(p))

\* ------------------------------------------------- save_project, then load
\* save_project writes the paths, the six annotation lists and the combo's
\* index with json.dump; load_project reads them back.  A JSON array is
\* [array |-> items]: json.dump writes a tuple and a list as an array and
\* json.load returns a list for it.

JsonArray(items) == [array |-> items]

\* json.dump of a point (x, y)
JsonPoint(pt) == JsonArray(pt)

\* json.dump of self.pane.points
JsonPoints(points) ==
    JsonArray([k \in 1..Len(points) |-> JsonPoint(points[k])])

\* json.dump of self.pane.lines: each line is (start, end)
JsonLines(lines) ==
    JsonArray([k \in 1..Len(lines) |->
                  JsonArray(<< JsonPoint(lines[k][1]),
                               JsonPoint(lines[k][2]) >>)])

\* json.dump of self.pane.faces: each face is a list of corners
JsonFaces(faces) ==
    JsonArray([k \in 1..Len(faces) |->
                  JsonArray([j \in 1..Len(faces[k]) |->
                                JsonPoint(faces[k][j])])])

\* to_tuples: [tuple(x) for x in lst]
to_tuples(lst) == [k \in 1..Len(lst.array) |-> lst.array[k].array]

\* the conversion of lines with the two ends exchanged
to_lines_exchanged(lst) ==
    [k \in 1..Len(lst.array) |->
        << lst.array[k].array[2].array, lst.array[k].array[1].array >>]

\* to_lines: [(tuple(start), tuple(end)) for start, end in lst]
to_lines(lst) ==
    [k \in 1..Len(lst.array) |->
        << lst.array[k].array[1].array, lst.array[k].array[2].array >>]

\* to_faces: [[tuple(p) for p in face] for face in lst]
to_faces(lst) ==
    [k \in 1..Len(lst.array) |->
        [j \in 1..Len(lst.array[k].array) |-> lst.array[k].array[j].array]]

\* the "pane" entry save_project writes for pane p, as load_project's
\* helpers convert it
SavedPane(p) ==
    PaneData(to_tuples(JsonPoints(p.points)), to_lines(JsonLines(p.lines)),
             to_faces(JsonFaces(p.faces)))

\* the file save_project writes
save_project ==
    [pane1 |-> SavedPane(pane[1]), pane2 |-> SavedPane(pane[2]),
     img1_path |-> img1_path, img2_path |-> img2_path, json |-> TRUE,
     warp_method |-> warp_combo]

\* save_project, then load_project on the file written
SaveAndLoadProject ==
    /\ img1_path # None /\ img2_path # None
    /\ LoadProject(save_project)

NextTrip == SaveAndLoadProject


\* ------------------------------------------------- run_warp, run once
\* on panes holding any numbers of points, lines and faces (as a project
\* file can leave them), with both images loaded.

\* the i-th landmark drawn
Landmark(i) == << i % 2, (i \div 2) % 2 >>

\* a pane with p points, l lines and f faces on an image of 2 x 2
PaneWith(p, l, f) ==
    [set_image(NewPane, imread("a.png")) EXCEPT
        !.points = [i \in 1..p |-> Landmark(i)],
        !.lines = [i \in 1..l |-> << Landmark(i), Landmark(i + 1) >>],
        !.faces = [i \in 1..f |-> BoxFace(P0, P1)]]

\* the panes of the counts up to MaxCount each
CountedPanes ==
    { PaneWith(p, l, f) : p \in 0..MaxCount, l \in 0..MaxCount,
                          f \in 0..MaxCount }

InitAggregate ==
    /\ cv_img1 = imread("a.png") /\ cv_img2 = imread("b.png")
    /\ img1_path = "a.png" /\ img2_path = "b.png"
    /\ warped_img2 = NoImage
    /\ pane \in [1..2 -> CountedPanes]
    /\ warp_combo \in 0..1
    /\ btn_save = FALSE
    /\ point_list = << >> /\ current_row = -1
    /\ view_img1 = NoImage /\ view_img2 = NoImage
    /\ status = "begin"
    /\ grab = 0
    /\ alive = TRUE
    /\ last = Idle
    /\ call = NoCall /\ result = NoResult

\* self.run_warp()
RunWarpOnce ==
    /\ alive
    /\ last = Idle
    /\ UNCHANGED << cv_img1, cv_img2, img1_path, img2_path, pane, warp_combo,
                    point_list, current_row, grab, call, result >>
    /\ \E r \in run_warp(pane[1], pane[2], cv_img1, cv_img2, warp_combo, UI) :
          Warped("run_warp", r)

NextAggregate == RunWarpOnce

SpecAggregate == InitAggregate /\ [][NextAggregate]_vars

\* ------------------------------------------------- the project, saved
\* with both images loaded and any annotations within the bounds

\* a pane with p points, l lines and f faces on the image of path
PaneOn(path, p, l, f) ==
    [PaneWith(p, l, f) EXCEPT
        !.pixmap = [w |-> imread(path).w, h |-> imread(path).h]]

\* the panes holding up to MaxPoints points, MaxLines lines, MaxFaces faces
SavedPanes(path) ==
    { PaneOn(path, p, l, f) : p \in 0..MaxPoints, l \in 0..MaxLines,
                              f \in 0..MaxFaces }

InitTrip ==
    /\ cv_img1 = imread("a.png") /\ cv_img2 = imread("b.png")
    /\ img1_path = "a.png" /\ img2_path = "b.png"
    /\ warped_img2 = NoImage
    /\ pane \in { << p1, p2 >> : p1 \in SavedPanes("a.png"),
                                 p2 \in SavedPanes("b.png") }
    /\ warp_combo \in 0..1
    /\ btn_save = FALSE
    /\ point_list = << >> /\ current_row = -1
    /\ view_img1 = NoImage /\ view_img2 = NoImage
    /\ status = "begin"
    /\ grab = 0
    /\ alive = TRUE
    /\ last = Idle
    /\ call = NoCall /\ result = NoResult

SpecTrip == InitTrip /\ [][NextTrip]_vars

\* ------------------------------------------------- rows selected and deleted
\* with the list in sync with panes holding any numbers of annotations

\* a pane with p points, l lines and f faces, no two of a kind alike
PaneOfDistinct(path, p, l, f) ==
    [PaneOn(path, p, l, f) EXCEPT
        !.faces = [i \in 1..f |-> BoxFace(P0, Landmark(i))]]

\* the panes of the counts up to MaxCount each
ListedPanes(path) ==
    { PaneOfDistinct(path, p, l, f) : p \in 0..MaxCount, l \in 0..MaxCount,
                                      f \in 0..MaxCount }

\* both images are loaded, the panes hold annotations (as a project file
\* leaves them) and sync_points has rebuilt the list
InitDelete ==
    /\ cv_img1 = imread("a.png") /\ cv_img2 = imread("b.png")
    /\ img1_path = "a.png" /\ img2_path = "b.png"
    /\ warped_img2 = NoImage
    /\ pane \in { << p1, p2 >> : p1 \in ListedPanes("a.png"),
                                 p2 \in ListedPanes("b.png") }
    /\ warp_combo = 0
    /\ btn_save = FALSE
    /\ point_list = Rows(pane[1], pane[2]) /\ current_row = -1
    /\ view_img1 = NoImage /\ view_img2 = NoImage
    /\ status = "begin"
    /\ grab = 0
    /\ alive = TRUE
    /\ last = Idle
    /\ call = NoCall /\ result = NoResult

NextDelete ==
    \/ \E r \in 0..(3 * MaxCount - 1) : SelectRow(r)
    \/ DeleteSelected

SpecDelete == InitDelete /\ [][NextDelete]_vars

\* ------------------------------------------------- right-click on a pane
\* mousePressEvent of pane i with the right button, which starts no drag and
\* adds nothing; pointsChanged is connected to sync_points
RightClick(i, pos) ==
    /\ alive
    /\ grab \in {0, i}
    /\ UNCHANGED << grab, cv_img1, cv_img2, img1_path, img2_path, warp_combo,
                    call, result >>
    /\ LET e == mousePressEvent(pane[i], "Right", pos)
       IN  /\ pane' = [pane EXCEPT ![i] = e.pane]
           /\ IF e.emit THEN Synced("press", pane') ELSE Unsynced("press")

\* both images are loaded, the panes hold annotations, one of the radio
\* buttons is checked and sync_points has rebuilt the list
InitUndo ==
    /\ cv_img1 = imread("a.png") /\ cv_img2 = imread("b.png")
    /\ img1_path = "a.png" /\ img2_path = "b.png"
    /\ warped_img2 = NoImage
    /\ \E mode \in AllInputModes :
          pane \in { << [p1 EXCEPT !.input_mode = mode],
                        [p2 EXCEPT !.input_mode = mode] >> :
                        p1 \in ListedPanes("a.png"),
                        p2 \in ListedPanes("b.png") }
    /\ warp_combo = 0
    /\ btn_save = FALSE
    /\ point_list = Rows(pane[1], pane[2]) /\ current_row = -1
    /\ view_img1 = NoImage /\ view_img2 = NoImage
    /\ status = "begin"
    /\ grab = 0
    /\ alive = TRUE
    /\ last = Idle
    /\ call = NoCall /\ result = NoResult

NextUndo ==
    \/ \E i \in 1..2, pos \in MousePos : RightClick(i, pos)
    \/ \E mode \in AllInputModes : ChangeInputMode(mode)

SpecUndo == InitUndo /\ [][NextUndo]_vars

\* ------------------------------------------------------------ properties

\* what the specification's aggregator pairs for pane p against pane q: the
\* free points both panes have, then the endpoints of the lines both have,
\* then the corners of the faces both have
PairedLandmarks(p, q) ==
    Take(p.points, Min(Len(p.points), Len(q.points)))
      \o LineEndpoints(p.lines, Min(Len(p.lines), Len(q.lines)))
      \o FaceCorners(p.faces, Min(Len(p.faces), Len(q.faces)))

\* C1: the arrays run_warp hands to the warper pair like with like: the
\* free points both panes have, then line endpoints, then face corners, for
\* any annotation counts (in particular different numbers of free points).
C1_PairsLikeWithLike ==
    last.info.called =>
        /\ last.info.dst = PairedLandmarks(pane[1], pane[2])
        /\ last.info.src = PairedLandmarks(pane[2], pane[1])

\* a warp was computed with one free point on pane A, none on pane B and a
\* face on each
C1_UnequalPointCounts ==
    /\ last.info.called
    /\ Len(pane[1].points) = 1 /\ Len(pane[2].points) = 0
    /\ Len(pane[1].faces) = 1 /\ Len(pane[2].faces) = 1

\* C2: when the aggregated count is below 4 or an image is missing, run_warp
\* does not call a warper, disables the save button and sets the comparison
\* view's warped image to None.
C2_RefusesBelowFour ==
    ( /\ last.nwarps > 0
      /\ \/ Aggregate(pane[1], pane[2]).n < 4
         \/ cv_img1 = NoImage
         \/ cv_img2 = NoImage )
    => /\ ~ last.info.called
       /\ last.info.ret = "refused"
       /\ btn_save = FALSE
       /\ view_img2 = NoImage

\* run_warp ran with both images loaded and one to three pairs
C2_RefusedWithImages ==
    /\ last.nwarps > 0
    /\ last.info.ret = "refused"
    /\ cv_img1 # NoImage /\ cv_img2 # NoImage
    /\ last.info.n \in 1..3

\* C3: a warper called directly with three pairs returns a failure without
\* calling cv2.findHomography or np.linalg.solve and without an image.
C3_WarpersRevalidate ==
    (result # NoResult /\ Len(call.src) = 3 /\ Len(call.dst) = 3)
    => /\ result.ret = None
       /\ result.calls = {}
       /\ result.img = NoImage

\* C4: a warper called with src_pts and dst_pts of different lengths yields
\* a failure value: no exception and no warped image, also when src_pts has
\* one row and dst_pts more.
C4_LengthMismatchFails ==
    (result # NoResult /\ Len(call.src) # Len(call.dst))
    => /\ result.ret = None
       /\ result.img = NoImage

\* C5: whatever warper.warp does (image, None, exception), run_warp
\* completes with a status message and no exception leaves the slot.
C5_RunWarpCompletes ==
    last.info.called =>
        /\ ~ last.info.raised
        /\ ~ last.escaped
        /\ alive
        /\ status \in {"failed", "aligned", "cleared", "loaded"}

\* C6: after a run_warp in which the warper returned None the comparison
\* view shows no warped image, not even that of an earlier invocation.
C6_FailureClearsView ==
    (last.info.called /\ last.info.ret = None) => view_img2 = NoImage

\* C7: when the TPS solve raises LinAlgError, warp returns None and runs
\* neither the dense-map loop nor cv2.remap; nothing else is turned into
\* the failure value.
C7_SingularSolveFails ==
    (call.model = "TPS" /\ result # NoResult) =>
        /\ result.solve = "LinAlgError" =>
              /\ result.ret = None
              /\ result.rows = 0
              /\ "remap" \notin result.calls
              /\ result.img = NoImage
        /\ result.ret = None => result.solve = "LinAlgError"
        /\ ~ BroadcastOk(Len(call.dst), Len(call.src)) =>
              result.ret = "raise"

\* the TPS warper was called with four pairs and the solve was singular
C7_SingularSolve ==
    /\ call.model = "TPS"
    /\ Len(call.src) = 4 /\ Len(call.dst) = 4
    /\ result.solve = "LinAlgError"

\* C8: HomographyWarper.warp returns None for degenerate input, such as
\* four collinear pairs; an image is returned only for a fit that is not
\* degenerate.
C8_DegenerateHomographyFails ==
    ( /\ call.model = "Homography"
      /\ result # NoResult
      /\ Len(call.src) = Len(call.dst)
      /\ Len(call.src) >= 4
      /\ HomographyDegenerate(call.src, call.dst) )
    => result.ret = None

\* C9: whenever the comparison view holds a warped image, its width and
\* height are those of the base image the view holds.
C9_ViewPairSameSize ==
    view_img2 # NoImage =>
        /\ view_img1 # NoImage
        /\ view_img2.w = view_img1.w
        /\ view_img2.h = view_img1.h

\* the view shows a warped image and the two loaded images differ in size
C9_WarpedOntoOtherSize ==
    /\ view_img2 # NoImage
    /\ cv_img1 # NoImage /\ cv_img2 # NoImage
    /\ cv_img2.w # cv_img1.w

\* the annotations of both panes
Annotations(pn) ==
    << pn[1].points, pn[1].lines, pn[1].faces,
       pn[2].points, pn[2].lines, pn[2].faces >>

\* a drag is in progress on pane p and the point, line or face dragged is
\* still there
Dragging(p) ==
    IF p.dragging_idx # -1 THEN p.dragging_idx < Len(p.points)
    ELSE IF p.dragging_line_idx # -1
    THEN p.dragging_line_idx < Len(p.lines)
    ELSE /\ p.dragging_face_idx # -1
         /\ p.dragging_face_idx < Len(p.faces)

\* a step of a listed kind: an image was loaded, an annotation was added,
\* moved or deleted, a move step of a drag, the warp model was switched
C10_InputChange ==
    /\ last'.op # "load_project"
    /\ \/ Annotations(pane') # Annotations(pane)
       \/ cv_img1' # cv_img1
       \/ cv_img2' # cv_img2
       \/ warp_combo' # warp_combo
       \/ \E i \in MousePanes, pos \in MousePos :
             /\ Dragging(pane[i])
             /\ MouseMove(i, pos)

\* the step ran run_warp once, on the state the step leaves
C10_WarpedOnce ==
    LET agg == Aggregate(pane'[1], pane'[2])
    IN  /\ last'.nwarps = 1
        /\ last'.info.n = agg.n
        /\ last'.info.called = CanWarp(agg.n, cv_img1', cv_img2')
        /\ last'.info.called =>
              /\ last'.info.src = agg.src
              /\ last'.info.dst = agg.dst
              /\ last'.info.method = ComboText(warp_combo')

\* C10: every input change of the listed kinds (image load, landmark add,
\* move step, delete by right click, delete-selected or clear-all, model
\* switch) is followed by exactly one run_warp, run after the change is
\* applied.
C10_OneWarpPerChange == [][C10_InputChange => C10_WarpedOnce]_vars

\* a move step of a drag ran run_warp once and the warper was called
C10_MovedAndWarped ==
    /\ last.op = "move"
    /\ last.nwarps = 1
    /\ last.info.called

\* C11: run_warp invocations never overlap or nest: every invocation returns
\* before the next one starts, so at most one warp computation is in flight,
\* also in a handler that runs run_warp more than once.
C11_OneWarpInFlight ==
    last.nwarps > 0 => last.info.depth = 1

\* load_project ran run_warp twice, from the combo box's signal and from
\* sync_points, and the second called the warper
C11_TwoWarpsInOneHandler ==
    /\ last.op = "load_project"
    /\ last.nwarps = 2
    /\ last.info.called

\* what a run_warp invocation gave: what warper.warp returned (or that it was
\* not called) and, for an image, the image
Outcome(r) ==
    [img |-> IF r.info.ret = "image" THEN r.ui.warped_img2 ELSE NoImage,
     ret |-> r.info.ret]

\* the widgets and warped_img2 as earlier invocations can have left them:
\* untouched since construction, after a success, after a failure that
\* followed a success
Histories ==
    { [warped_img2 |-> NoImage, btn_save |-> FALSE, view_img1 |-> NoImage,
       view_img2 |-> NoImage, status |-> "begin"],
      [warped_img2 |-> WarpedImage(<< 2, 2 >>), btn_save |-> TRUE,
       view_img1 |-> imread("a.png"), view_img2 |-> WarpedImage(<< 2, 2 >>),
       status |-> "aligned"],
      [warped_img2 |-> NoImage, btn_save |-> FALSE,
       view_img1 |-> imread("a.png"), view_img2 |-> WarpedImage(<< 2, 2 >>),
       status |-> "failed"] }

\* the outcomes run_warp can have on the images, annotations and model of
\* the current state when the widgets hold u (more than one where the
\* library build decides, the same one in every invocation of a build)
OutcomesAfter(u) ==
    { Outcome(r) :
        r \in run_warp(pane[1], pane[2], cv_img1, cv_img2, warp_combo, u) }

\* C12: the outcome of run_warp depends on the images, the annotations and
\* the selected model only: whatever earlier invocations left behind, the
\* same inputs give the same image or the same failure, and the invocation
\* that just ran gave what an invocation on a fresh application gives.
C12_OutcomeFromInputsOnly ==
    last.nwarps > 0 =>
        \A u \in Histories :
            /\ OutcomesAfter(u) = OutcomesAfter(UI)
            /\ [img |-> IF last.info.ret = "image" THEN warped_img2
                        ELSE NoImage,
                ret |-> last.info.ret] \in OutcomesAfter(u)

\* the warper failed in an invocation that followed a successful one
C12_FailedAfterSuccess ==
    /\ last.info.called
    /\ last.info.ret = None
    /\ view_img2 # NoImage

\* after an invocation the panes' lists are those handed to it, and a
\* warped image is not one of the loaded images
C13_ListsKept ==
    last.nwarps > 0 =>
        /\ last.info.inputs =
             << << pane[1].points, pane[1].lines, pane[1].faces >>,
                << pane[2].points, pane[2].lines, pane[2].faces >> >>
        /\ last.info.ret = "image" =>
              /\ warped_img2 # cv_img1
              /\ warped_img2 # cv_img2

\* a handler that runs run_warp and loads no image leaves both images
C13_ImagesKept ==
    (last'.nwarps > 0 /\ last'.op \notin {"load_image", "load_project"})
    => /\ cv_img1' = cv_img1
       /\ cv_img2' = cv_img2

\* C13: run_warp and the warpers leave their inputs unchanged: after run_warp
\* (success, failure or fewer than four pairs) both panes' points, lines and
\* faces and both images are as they were handed to it, and a warped image
\* is a buffer of its own, not one of the loaded images.
C13_InputsUnchanged == [] C13_ListsKept /\ [][C13_ImagesKept]_vars

\* the warper returned an image for annotations of which run_warp appended
\* face corners to its point lists
C13_WarpedWithFaces ==
    /\ last.info.called
    /\ last.info.ret = "image"
    /\ Len(pane[1].faces) = 1 /\ Len(pane[2].faces) = 1

\* C14: for all annotation counts the arrays src and dst run_warp builds
\* have the same length n, and n = min(pA,pB) + 2*min(lA,lB) + 4*min(fA,fB).
C14_CountFormula ==
    last.nwarps > 0 =>
        /\ last.info.n =
               Min(Len(pane[1].points), Len(pane[2].points))
             + 2 * Min(Len(pane[1].lines), Len(pane[2].lines))
             + 4 * Min(Len(pane[1].faces), Len(pane[2].faces))
        /\ last.info.called =>
              /\ Len(last.info.src) = last.info.n
              /\ Len(last.info.dst) = last.info.n

\* the warper was called for panes that differ in their numbers of points
\* and of lines and share a line and a face
C14_UnequalCounts ==
    /\ last.info.called
    /\ Len(pane[1].points) > Len(pane[2].points)
    /\ Len(pane[1].lines) < Len(pane[2].lines)
    /\ Len(pane[1].lines) >= 1
    /\ Len(pane[1].faces) >= 1 /\ Len(pane[2].faces) >= 1

\* C15: for a successful TPS fit, evaluating the fitted spline at each
\* control point dst[i] with the dense mapper's rule reproduces src[i] within
\* 1e-3 pixels, in spite of the 1e-4 added to the diagonal of K.
C15_InterpolatesControls ==
    ( /\ call.model = "TPS"
      /\ result.ret = "image"
      /\ Len(call.src) = 4 /\ Len(call.dst) = 4
      /\ DistinctControls(call.dst) )
    => \A i \in 1..4, k \in 1..2 :
          ControlResidualWithin(call.src, call.dst, i, k)

\* a TPS fit on the corners of a pixel square that moves them by less than a
\* pixel succeeded
C15_FitOnSquare ==
    /\ call.model = "TPS"
    /\ result.ret = "image"
    /\ call.src = SrcPts(4)
    /\ DistinctControls(call.dst)

\* C16: when src equals dst (n >= 4, not degenerate) both warpers give the
\* identity mapping: every destination pixel (x, y) is sampled from the
\* source coordinate (x, y).
C16_IdentityFit ==
    ( /\ result.ret = "image"
      /\ call.src = call.dst
      /\ Len(call.src) >= 4
      /\ ~ HomographyDegenerate(call.src, call.dst) )
    => \A px \in (0..(call.size[1] - 1)) \X (0..(call.size[2] - 1)) :
          px = IF call.model = "TPS"
               THEN TPSSample(call.src, call.dst, px)
               ELSE HomographySample(call.img, call.src, call.dst, px)

\* the homography warper returned an image for four pairs that map every
\* point to itself
C16_WarpedOntoItself ==
    /\ call.model = "Homography"
    /\ result.ret = "image"
    /\ call.src = call.dst
    /\ Len(call.src) = 4

\* C17: both warpers resample the source image with bicubic interpolation:
\* the homography path and the TPS path each request it.
C17_BothBicubic ==
    result.ret = "image" =>
        /\ Resamplers(result) # {}
        /\ \A c \in Resamplers(result) : Interpolation(c) = "INTER_CUBIC"

\* the TPS warper returned an image resampled by cv2.remap
C17_RemappedBicubic ==
    /\ call.model = "TPS"
    /\ result.ret = "image"
    /\ "remap" \in result.calls

\* the pixels of the output of the call
OutputPixels == (0..(call.size[1] - 1)) \X (0..(call.size[2] - 1))

\* the library call that resampled the source
Resampler == CHOOSE c \in Resamplers(result) : TRUE

C19_NonFiniteRefused ==
    (result # NoResult /\ result.solve = "weights" /\ ~ WeightsFinite(call))
        => result.ret # "image"

\* the TPS warper was called with a source point that is not finite and the
\* solve went through
C19_SolvedNonFinite ==
    /\ result # NoResult
    /\ result.solve = "weights"
    /\ ~ IsFinite(call.src)

\* C20: after any sequence of canvas operations every stored face has exactly
\* 4 corners, in top-left, top-right, bottom-right, bottom-left order.
C20_FacesInCornerOrder ==
    \A i \in 1..2 : \A k \in 1..Len(pane[i].faces) :
        InCornerOrder(pane[i].faces[k])

\* a corner of a face drawn as a box was dragged
C20_CornerDragged ==
    /\ last.op = "move"
    /\ pane[1].dragging_face_idx # -1
    /\ Len(pane[1].faces) > 0
    /\ pane[1].faces[1][1] # pane[1].faces[1][3]

\* C22: for every n the system has L of shape (n+3) x (n+3) with the blocks
\* [K P; P^T 0], the lower-right 3 x 3 block zero, 1e-4 added to exactly the
\* n diagonal entries of the K block, and V of shape (n+3) x 2 with its last
\* 3 rows zero.
C22_SystemShape ==
    Assembled =>
        LET n == Len(call.dst)
            Lm == L(call.dst)
            Vm == V(call.src, call.dst)
            rest(r, c) ==
                Lm[r][c] - (IF r = c /\ r <= n THEN 1 ELSE 0)
        IN  /\ Len(Lm) = n + 3
            /\ \A r \in 1..(n + 3) : Len(Lm[r]) = n + 3
            /\ \A r, c \in (n + 1)..(n + 3) : Lm[r][c] = 0
            /\ \A r, c \in 1..n :
                  rest(r, c) = KernelE4(DistSq(call.dst[r], call.dst[c]))
            /\ \A r \in 1..n :
                  /\ Lm[r][n + 1] = E4 /\ Lm[n + 1][r] = E4
                  /\ \A k \in 1..2 :
                        /\ Lm[r][n + 1 + k] = E4 * call.dst[r][k]
                        /\ Lm[n + 1 + k][r] = E4 * call.dst[r][k]
            /\ Len(Vm) = n + 3
            /\ \A r \in 1..(n + 3) : Len(Vm[r]) = 2
            /\ \A r \in (n + 1)..(n + 3) : Vm[r] = << 0, 0 >>

\* a TPS system was assembled from four control points
C22_AssembledFromFour ==
    /\ Assembled
    /\ Len(call.dst) = 4
    /\ Len(L(call.dst)) = 7
    /\ L(call.dst)[1][1] = 1

\* C21: the TPS fit runs from destination to source in both phases: K and P
\* are built from dst_pts, V holds src_pts, and the dense map, evaluated with
\* distances to dst_pts, holds at the pixel of control point dst[i] the
\* source coordinate src[i] (to a hundredth of a pixel).
C21_InverseDirection ==
    (Assembled /\ result.ret = "image" /\ FitOfFour(call.src, call.dst)) =>
        /\ \A i \in 1..4 : V(call.src, call.dst)[i] = call.src[i]
        /\ \A i \in 1..4 : P(call.dst)[i] = << 1, call.dst[i][1], call.dst[i][2] >>
        /\ \A i, j \in 1..4 :
              K(call.dst)[i][j] = KernelE4(DistSq(call.dst[i], call.dst[j]))
        /\ \A i \in 1..4 : \A k \in 1..2 :
              100 * Abs(mapped_pts(call.src, call.dst, call.dst[i], k)
                          - MapScale(call.dst) * call.src[i][k])
                 <= Abs(MapScale(call.dst))

\* a TPS fit of four pairs that is not affine and moves a control point
C21_BentFit ==
    /\ Assembled /\ result.ret = "image"
    /\ FitOfFour(call.src, call.dst)
    /\ NullDotV(call.src, call.dst, 1) # 0
    /\ call.src # call.dst

\* the rows below y are assigned once in every entry, the others not at all
RowsBelowAssigned(map, y) ==
    \A r \in DOMAIN map : \A c \in DOMAIN map[r] :
        map[r][c] = (IF r < y THEN 1 ELSE 0)

\* the loop assigns row by row: after y iterations exactly the rows below y
\* are assigned, once in every entry, and on exit y is target_h
C23_RowByRow ==
    InFrame =>
        /\ result.y <= call.size[2]
        /\ DOMAIN result.map_x = 0..(call.size[2] - 1)
        /\ \A r \in DOMAIN result.map_x :
              DOMAIN result.map_x[r] = 0..(call.size[1] - 1)
        /\ RowsBelowAssigned(result.map_x, result.y)
        /\ RowsBelowAssigned(result.map_y, result.y)
        /\ result.pc = "remap" => result.y = call.size[2]

\* the call left the loop and returned
C23_Returned == (~ InFrame) /\ result.rows = call.size[2]

\* C23: for every output size (W, H) with W, H >= 1 the dense-map loop ends
\* after exactly H iterations, iteration y assigns row y of map_x and map_y
\* and no other, and on exit every entry was assigned exactly once.
C23_LoopTerminates == ([] C23_RowByRow) /\ (<> C23_Returned)

\* the loop was left with maps of more than one row
C23_LeftLoop ==
    /\ InFrame
    /\ result.pc = "remap"
    /\ call.size[2] > 1
    /\ call.size[1] > 1

\* the step changed what the warp is computed from
C24_InputsSuperseded ==
    \/ Annotations(pane') # Annotations(pane)
    \/ cv_img1' # cv_img1
    \/ cv_img2' # cv_img2
    \/ warp_combo' # warp_combo

\* the step's last run_warp ran on the state the step leaves and published
\* the image the warper returned
C24_WarpedAfresh ==
    LET agg == Aggregate(pane'[1], pane'[2])
    IN  /\ last'.nwarps >= 1
        /\ last'.info.ret = "image"
        /\ last'.info.src = agg.src
        /\ last'.info.dst = agg.dst
        /\ last'.info.method = ComboText(warp_combo')
        /\ warped_img2' # NoImage

\* C24: whenever the save button is enabled, warped_img2 is the result of
\* warping the current images with the current annotations and the selected
\* model: no step supersedes the inputs and leaves the button enabled over
\* the result of the inputs it replaced.
C24_SaveOnlyFresh ==
    [][(alive' /\ btn_save' /\ C24_InputsSuperseded) => C24_WarpedAfresh]_vars

\* the save button is enabled over a published result
C24_SaveEnabled ==
    /\ alive
    /\ btn_save
    /\ warped_img2 # NoImage
    /\ last.info.ret = "image"

\* C25: after every completed user operation the list widget has exactly
\* max(pA,pB) point rows, then max(lA,lB) line rows, then max(fA,fB) face
\* rows for the panes' current annotations; loading an image, which clears
\* that pane's annotations, leaves no rows for them.
C25_ListMatchesPanes ==
    alive => point_list = Rows(pane[1], pane[2])

\* the list shows a row for an annotation of pane A
C25_RowShown ==
    /\ alive
    /\ point_list # << >>
    /\ point_list = Rows(pane[1], pane[2])
    /\ Annotations(pane) # Annotations([i \in 1..2 |-> NewPane])

\* C26: every stored free point, line endpoint and face corner of a pane
\* lies inside that pane's currently loaded image, across canvas edits,
\* image loads and project loads.
C26_AnnotationsInsideImage ==
    \A i \in 1..2 :
        pane[i].pixmap # NoPixmap =>
            \A pt \in StoredPoints(pane[i]) : InsideImage(pane[i], pt)

\* a press beyond the image's last pixel stored a point on the image
C26_ClampedClick ==
    /\ last.op = "press"
    /\ pane[1].pixmap # NoPixmap
    /\ pane[1].points = << << 1, 1 >> >>

\* every subscript a mouse move would apply is within its list
C27_SubscriptsInRange ==
    \A i \in 1..2 : \A x \in MoveSubscripts(pane[i]) :
        x[2] >= 0 /\ x[2] < x[1]

\* a move on a stale drag resets the drag index and changes no annotation
C27_StaleMoveResets ==
    \A pos \in CanvasPos :
        (MouseMove(1, pos) /\ StaleDrag(pane[1])) =>
            /\ DragIndex(pane'[1]) = -1
            /\ Annotations(pane') = Annotations(pane)

\* C27: under any interleaving of left press, move, release, right-click
\* undo, delete-selected and clear-all, mouseMoveEvent never indexes points,
\* lines or faces out of range; when the element dragged was removed, the
\* move resets the drag index to -1 and changes no annotation.
C27_MoveStaysInRange ==
    ([] C27_SubscriptsInRange) /\ [][C27_StaleMoveResets]_vars

\* a move found the line it was dragging removed and reset the drag
C27_StaleLineDragReset ==
    /\ last = Idle
    /\ grab = 1
    /\ pane[1].input_mode = "LINE"
    /\ pane[1].lines = << >>
    /\ pane[1].dragging_line_idx = -1
    /\ pane[1].current_line_start = NoPoint

\* the step saved the project and loaded the file written, and the process
\* is still running
C28_SavedAndLoaded ==
    /\ SaveAndLoadProject
    /\ alive'

\* C28: save_project followed by load_project of the written file, with both
\* image paths readable, restores both panes' points, lines and faces (same
\* values, same order) and the warp-method index.
C28_RoundTrip ==
    [][C28_SavedAndLoaded =>
          /\ Annotations(pane') = Annotations(pane)
          /\ warp_combo' = warp_combo
          /\ status' = "loaded"]_vars

\* a project with a line in pane A and TPS selected was loaded
C28_LoadedWithLine ==
    /\ last.op = "load_project"
    /\ status = "loaded"
    /\ Len(pane[1].lines) = 1
    /\ pane[1].lines[1][1] # pane[1].lines[1][2]
    /\ warp_combo = 1
    /\ img1_path # None /\ img2_path # None

\* the step was a load_project that ended in its except branch
C29_LoadFailed ==
    /\ last'.op = "load_project"
    /\ status' = "error"

\* C29: load_project is all-or-nothing: when it fails at any step, the
\* images, the image paths, both panes' annotations, the selected warp
\* model, the published warp result and the save button are as before.
C29_AllOrNothing ==
    [][C29_LoadFailed =>
          /\ cv_img1' = cv_img1 /\ cv_img2' = cv_img2
          /\ img1_path' = img1_path /\ img2_path' = img2_path
          /\ Annotations(pane') = Annotations(pane)
          /\ warp_combo' = warp_combo
          /\ warped_img2' = warped_img2
          /\ btn_save' = btn_save]_vars

\* a load_project failed on malformed annotation entries
C29_FailedLoad ==
    /\ last.op = "load_project"
    /\ status = "error"
    /\ alive

\* the sequence without its element of 0-based index k
C30_Without(seq, k) ==
    [j \in 1..(Len(seq) - 1) |-> IF j <= k THEN seq[j] ELSE seq[j + 1]]

\* the list without the element row r shows, when the rows of this kind
\* start at row first and the list has an element for the row
C30_Kept(seq, r, first, rows) ==
    IF r >= first /\ r < first + rows /\ r - first < Len(seq)
    THEN C30_Without(seq, r - first)
    ELSE seq

\* what delete_selected_points is to leave of the panes
C30_Expected ==
    LET max_pts == Max(Len(pane[1].points), Len(pane[2].points))
        max_lns == Max(Len(pane[1].lines), Len(pane[2].lines))
        max_fcs == Max(Len(pane[1].faces), Len(pane[2].faces))
        r == current_row
    IN  IF r = -1 THEN Annotations(pane') = Annotations(pane)
        ELSE \A i \in 1..2 :
               /\ pane'[i].points = C30_Kept(pane[i].points, r, 0, max_pts)
               /\ pane'[i].lines =
                     C30_Kept(pane[i].lines, r, max_pts, max_lns)
               /\ pane'[i].faces =
                     C30_Kept(pane[i].faces, r, max_pts + max_lns, max_fcs)

\* C30: with the list in sync, delete_selected_points on row r removes
\* exactly the annotation pair row r shows (the r-th point of each pane that
\* has one, else the line, else the face), leaves every other annotation,
\* and changes nothing when no row is selected.
C30_DeletesTheRowShown ==
    [][(DeleteSelected /\ point_list = Rows(pane[1], pane[2]))
          => C30_Expected]_vars

\* a row was deleted from panes that keep points, lines and a face each
C30_RowDeleted ==
    /\ last.op = "delete_selected"
    /\ Len(pane[1].points) > 0 /\ Len(pane[1].lines) > 0
    /\ Len(pane[1].faces) = 1
    /\ Len(pane[2].faces) = 1
    /\ pane[1].faces[1] = BoxFace(P0, Landmark(1))

\* the three annotation lists of pane p
ListsOf(p) == [POINT |-> p.points, LINE |-> p.lines, FACE |-> p.faces]

\* list l without its last element
C31_WithoutLast(l) == [k \in 1..(Len(l) - 1) |-> l[k]]

\* the right-click on pane i took the last element off the list of the
\* current mode, or found that list empty and changed nothing
C31_Undone(i) ==
    LET mode == pane[i].input_mode
        old == ListsOf(pane[i])
        new == ListsOf(pane'[i])
    IN  /\ pane'[3 - i] = pane[3 - i]
        /\ IF old[mode] # << >>
           THEN /\ new[mode] = C31_WithoutLast(old[mode])
                /\ \A m \in AllInputModes \ {mode} : new[m] = old[m]
           ELSE /\ pane' = pane
                /\ UNCHANGED << warped_img2, btn_save, point_list,
                                current_row, view_img1, view_img2, status,
                                alive >>

====
